---- MODULE Spec2Model ----
(***************************************************************************)
(* Usage-accounting and entitlement core of the Notae backend gateway.     *)
(*                                                                         *)
(* The ledger is the Firestore collection `users`; every `await` on the    *)
(* ledger (get, set, update) and every provider call is one atomic step of *)
(* a request, and requests of the same user interleave freely between      *)
(* those steps.  Numeric fields that are absent from a stored document are *)
(* held as 0: every read of such a field in the code goes through          *)
(* `x || default` (or a comparison in which undefined and 0 agree), and    *)
(* FieldValue.increment(1) turns an absent field into 1.  String fields    *)
(* that are absent are held as Undefined.                                  *)
(*                                                                         *)
(* A request is followed from its first ledger read on: the argument and   *)
(* authentication checks before it touch no state.  getMonthKey() is read  *)
(* in the step whose write carries it.  The provider either answers or the *)
(* request ends with an internal error.                                    *)
(***************************************************************************)
EXTENDS Integers, FiniteSets, Sequences, TLC

\* ---------------------------------------------------------------- bounds
NumReq == 2          \* request slots: how many requests one run may hold
MaxMonth == 3        \* the clock (a month or day index) runs up to here

\* ------------------------------------------------------ program constants
FREE_VOICE_LIMIT == 7
FREE_PHOTO_LIMIT == 3
PRO_LIMIT == 999999

Undefined == "undefined"
Devices == {"devB"}            \* deviceID a request presents (stored: "devA")
TokenCounts == {5}            \* input_tokens + output_tokens of one answer
ProviderOutcomes == {"ok", "error"}
\* What the provider call of index.js can bring: an answer; a response with
\* an error status; for callClaudeVision, 404 / not_found from every model
\* of the fallback list; no response at all (fetch or axios throws).
VisionOutcomes == {"ok", "status", "not-found", "network"}
WhisperOutcomes == {"ok", "status", "network"}

\* What the message of the internal error is made of, besides fixed text:
\* "status" (the status or statusText of the response), "body" (the body of
\* the provider's response), "error" (the message of the local error),
\* "none".  index.js 236-264, 590-603; part_002 194, 433, 443, 715-727.
ErrorDetail(deployment, op, outcome) ==
    CASE outcome = "network" -> "error"
      [] outcome = "empty" -> "none"
      [] outcome = "not-found" -> "body"
      [] outcome = "status" ->
           IF deployment = "lifetime" /\ op = "whisper" THEN "body" ELSE "status"
      [] OTHER -> "none"
LogOutcomes == {"ok", "error"}     \* usage_logs.add resolves or rejects
LogFailed == "usage_logs.add failed"
User == "u1"

VARIABLES
    users,        \* the ledger: user id -> stored document
    since,        \* history: per counter, the month of the oldest consumption
                  \* still counted in the stored used value (0: none)
    usage_logs,   \* the usage_logs collection
    req,          \* per request slot: operation, position, locals, response
    now,          \* the current month (day, in the daily deployment)
    config,       \* fixed through a run: which code is deployed, whether
                  \* requests of the user may overlap in time, and the
                  \* document the run started from
    sweptAt       \* the day the scheduled reset last ran (daily deployment)

vars == <<users, since, usage_logs, req, now, config, sweptAt>>

\* The request slots of a run.
Slots == DOMAIN req

\* ------------------------------------------------------------- documents
NoDoc ==
    [exists |-> FALSE,
     deviceID |-> Undefined,
     subscriptionTier |-> Undefined,
     photoScansUsed |-> 0, photoScansLimit |-> 0, photoScansDayKey |-> 0,
     voiceActionsUsed |-> 0, voiceActionsLimit |-> 0, voiceActionsDayKey |-> 0,
     lifetimeAPIRequests |-> 0, monthlyTokens |-> 0,
     lifetimeRequests |-> 0, lifetimeLimit |-> 0,
     dailyRequests |-> 0, lastResetAt |-> 0,
     lastRequestAt |-> 0, createdAt |-> 0,
     subscriptionExpiresAt |-> 0, subscriptionVerifiedAt |-> 0,
     subscriptionProductId |-> Undefined]

NoSince == [photo |-> 0, voice |-> 0]

\* JavaScript `a || b` on numbers: 0 and undefined are falsy.
OrNum(a, b) == IF a = 0 THEN b ELSE a
\* JavaScript `a || b` on strings.
OrStr(a, b) == IF a = Undefined \/ a = "" THEN b ELSE a
Max(a, b) == IF a >= b THEN a ELSE b

getMonthKey == now

\* The object getUserUsage returns, before it is built.
NoUsage ==
    [voiceActionsUsed |-> 0, voiceActionsLimit |-> 0, remainingVoiceActions |-> 0,
     photoScansUsed |-> 0, photoScansLimit |-> 0, remainingPhotoScans |-> 0,
     subscriptionTier |-> Undefined, lifetimeAPIRequests |-> 0,
     monthlyTokens |-> 0, lastRequestAt |-> 0, deviceID |-> Undefined]

NoRet == [status |-> "none", limit |-> 0, used |-> 0, tier |-> Undefined,
          remaining |-> 0, isActive |-> FALSE, message |-> "",
          detail |-> "none", usage |-> NoUsage]

\* What a request carries, as far as the argument checks look at it: the
\* caller identity, the payload (imageBase64, audioData, jwsToken), the
\* image type and the payload size in MB.
NoInput == [auth |-> TRUE, payload |-> TRUE, imageType |-> Undefined, sizeMB |-> 0]

IdleReq ==
    [op |-> "none", pc |-> "idle", deviceID |-> Undefined, userData |-> NoDoc,
     snapSince |-> NoSince, tokens |-> 0, called |-> FALSE, ret |-> NoRet,
     input |-> NoInput,
     tried |-> <<>>]     \* what each model of the fallback list brought

\* ------------------------------------------------- Period Rollover Manager
\* Variant: the rollover and the limit correction apply to every tier.
ensureMonthlyVoiceReset_EveryTier(userData, monthKey) ==
    LET needsLimitFix ==
            OrNum(userData.voiceActionsLimit, FREE_VOICE_LIMIT) # FREE_VOICE_LIMIT
        needsReset == userData.voiceActionsDayKey # monthKey
        used == IF needsReset THEN 0 ELSE OrNum(userData.voiceActionsUsed, 0)
    IN  [write |-> needsReset \/ needsLimitFix,
         reset |-> needsReset,
         used |-> used,
         key |-> monthKey,
         limitFix |-> needsLimitFix]

\* ensureMonthlyVoiceReset: what it writes (write = FALSE: no ledger update)
\* and the userData it returns.
ensureMonthlyVoiceReset(userData, monthKey) ==
    LET tier == OrStr(userData.subscriptionTier, "free")
        needsLimitFix == tier # "pro"
            /\ OrNum(userData.voiceActionsLimit, FREE_VOICE_LIMIT) # FREE_VOICE_LIMIT
        needsReset == tier # "pro" /\ userData.voiceActionsDayKey # monthKey
        used == IF needsReset THEN 0 ELSE OrNum(userData.voiceActionsUsed, 0)
    IN  [write |-> needsReset \/ needsLimitFix,
         reset |-> needsReset,
         used |-> used,
         key |-> monthKey,
         limitFix |-> needsLimitFix]

\* Variant: the stored key is never found stale.
ensureMonthlyPhotoReset_NeverStale(userData, monthKey) ==
    LET tier == OrStr(userData.subscriptionTier, "free")
        needsLimitFix == tier # "pro"
            /\ OrNum(userData.photoScansLimit, FREE_PHOTO_LIMIT) # FREE_PHOTO_LIMIT
    IN  [write |-> needsLimitFix,
         reset |-> FALSE,
         used |-> OrNum(userData.photoScansUsed, 0),
         key |-> monthKey,
         limitFix |-> needsLimitFix]

\* Variant: the rollover writes the new key and keeps the old count.
ensureMonthlyPhotoReset_KeyOnly(userData, monthKey) ==
    LET tier == OrStr(userData.subscriptionTier, "free")
        needsLimitFix == tier # "pro"
            /\ OrNum(userData.photoScansLimit, FREE_PHOTO_LIMIT) # FREE_PHOTO_LIMIT
        needsReset == tier # "pro" /\ userData.photoScansDayKey # monthKey
    IN  [write |-> needsReset \/ needsLimitFix,
         reset |-> needsReset,
         used |-> OrNum(userData.photoScansUsed, 0),
         key |-> monthKey,
         limitFix |-> needsLimitFix]

ensureMonthlyPhotoReset(userData, monthKey) ==
    LET tier == OrStr(userData.subscriptionTier, "free")
        needsLimitFix == tier # "pro"
            /\ OrNum(userData.photoScansLimit, FREE_PHOTO_LIMIT) # FREE_PHOTO_LIMIT
        needsReset == tier # "pro" /\ userData.photoScansDayKey # monthKey
        used == IF needsReset THEN 0 ELSE OrNum(userData.photoScansUsed, 0)
    IN  [write |-> needsReset \/ needsLimitFix,
         reset |-> needsReset,
         used |-> used,
         key |-> monthKey,
         limitFix |-> needsLimitFix]

\* The update of ensureMonthlyVoiceReset applied to a document (the stored
\* one, and the request's own copy).
VoiceResetOn(d, e) ==
    IF e.write
    THEN [d EXCEPT !.voiceActionsUsed = e.used,
                   !.voiceActionsDayKey = e.key,
                   !.voiceActionsLimit = IF e.limitFix THEN FREE_VOICE_LIMIT ELSE @]
    ELSE d

PhotoResetOn(d, e) ==
    IF e.write
    THEN [d EXCEPT !.photoScansUsed = e.used,
                   !.photoScansDayKey = e.key,
                   !.photoScansLimit = IF e.limitFix THEN FREE_PHOTO_LIMIT ELSE @]
    ELSE d

\* ------------------------------------------------- Quota Policy Evaluator
photoScansLimit(userData) ==
    IF userData.subscriptionTier = "pro" THEN PRO_LIMIT
    ELSE OrNum(userData.photoScansLimit, FREE_PHOTO_LIMIT)

photoScansUsed(userData) == OrNum(userData.photoScansUsed, 0)

voiceActionsLimit(userData) ==
    IF userData.subscriptionTier = "pro" THEN PRO_LIMIT
    ELSE OrNum(userData.voiceActionsLimit, FREE_VOICE_LIMIT)

voiceActionsUsed(userData) == OrNum(userData.voiceActionsUsed, 0)

\* Variant: the comparison is strict.
PhotoLimitReached_Strict(userData) ==
    /\ photoScansUsed(userData) > photoScansLimit(userData)
    /\ userData.subscriptionTier = "free"

\* Variant: the stored limit is compared, whatever the tier.
PhotoLimitReached_StoredLimit(userData) ==
    photoScansUsed(userData) >= OrNum(userData.photoScansLimit, FREE_PHOTO_LIMIT)

\* callClaudeVision's limit check (index.js 166).
PhotoLimitReached(userData) ==
    /\ photoScansUsed(userData) >= photoScansLimit(userData)
    /\ userData.subscriptionTier = "free"



\* ------------------------------------------------------------ lazy create
\* Variant: the record is created without its period keys.
NewActionDoc_NoKeys(deviceID, monthKey) ==
    [NoDoc EXCEPT !.exists = TRUE,
                  !.deviceID = deviceID,
                  !.photoScansUsed = 0,
                  !.photoScansLimit = FREE_PHOTO_LIMIT,
                  !.voiceActionsUsed = 0,
                  !.voiceActionsLimit = FREE_VOICE_LIMIT,
                  !.subscriptionTier = "free",
                  !.createdAt = now]

\* The document callClaudeVision / callWhisperProxy set for an unseen user.
NewActionDoc(deviceID, monthKey) ==
    [NoDoc EXCEPT !.exists = TRUE,
                  !.deviceID = deviceID,
                  !.photoScansUsed = 0,
                  !.photoScansLimit = FREE_PHOTO_LIMIT,
                  !.photoScansDayKey = monthKey,
                  !.voiceActionsUsed = 0,
                  !.voiceActionsLimit = FREE_VOICE_LIMIT,
                  !.voiceActionsDayKey = monthKey,
                  !.subscriptionTier = "free",
                  !.createdAt = now]

\* userDoc.data() || {...} of callClaudeVision.
VisionFallback(monthKey) ==
    [NoDoc EXCEPT !.photoScansUsed = 0,
                  !.photoScansLimit = FREE_PHOTO_LIMIT,
                  !.photoScansDayKey = monthKey,
                  !.voiceActionsUsed = 0,
                  !.voiceActionsLimit = FREE_VOICE_LIMIT,
                  !.voiceActionsDayKey = monthKey,
                  !.subscriptionTier = "free"]

\* userDoc.data() || {...} of callWhisperProxy.
WhisperFallback(monthKey) ==
    [NoDoc EXCEPT !.voiceActionsUsed = 0,
                  !.voiceActionsLimit = FREE_VOICE_LIMIT,
                  !.voiceActionsDayKey = monthKey,
                  !.subscriptionTier = "free"]

\* -------------------------------------------------------- request helpers
Idle(p) == req[p].pc = "idle"
Finished(p) == req[p].pc = "done"
InFlight(p) == ~Idle(p) /\ ~Finished(p)

\* Slots are taken in order (they are interchangeable).
MayStart(p) ==
    /\ Idle(p)
    /\ (IF p = 1 THEN TRUE ELSE ~Idle(p - 1))
    /\ (config.overlap \/ \A q \in Slots : ~InFlight(q))

Begin(p, op, dev) ==
    req' = [req EXCEPT ![p] =
        [IdleReq EXCEPT !.op = op,
                        !.deviceID = dev,
                        !.userData = users[User],
                        !.snapSince = since[User],
                        !.pc = IF users[User].exists THEN "ensure" ELSE "set"]]

\* The request ends with response `ret`; its locals die with it, except the
\* userData it decided on, whether it reached the provider and what the
\* models it tried brought.
Respond(p, userData, called, ret) ==
    req' = [req EXCEPT ![p] = [IdleReq EXCEPT !.op = req[p].op,
                                              !.pc = "done",
                                              !.userData = userData,
                                              !.called = called,
                                              !.ret = ret,
                                              !.tried = req[p].tried]]

\* ------------------------------------------------------- callClaudeVision
\* userRef.get() (index.js 125)
VisionGet(p) ==
    /\ MayStart(p)
    /\ \E dev \in Devices : Begin(p, "vision", dev)
    /\ UNCHANGED <<users, since, usage_logs, now, config, sweptAt>>

\* userRef.set({...}) for a document read as missing (index.js 127-151)
VisionSet(p) ==
    /\ req[p].op = "vision" /\ req[p].pc = "set"
    /\ users' = [users EXCEPT ![User] = NewActionDoc(req[p].deviceID, getMonthKey)]
    /\ since' = [since EXCEPT ![User] = NoSince]
    /\ req' = [req EXCEPT ![p].pc = "ensure",
                          ![p].userData = VisionFallback(getMonthKey),
                          ![p].snapSince = NoSince]
    /\ UNCHANGED <<usage_logs, now, config, sweptAt>>

\* ensureMonthlyPhotoReset and the limit check (index.js 153-177)
VisionEnsure(p) ==
    /\ req[p].op = "vision" /\ req[p].pc = "ensure"
    /\ LET e == ensureMonthlyPhotoReset(req[p].userData, getMonthKey)
           ud == PhotoResetOn(req[p].userData, e)
       IN  /\ users' = [users EXCEPT ![User] = PhotoResetOn(@, e)]
           /\ since' = IF e.write
                       THEN [since EXCEPT ![User].photo =
                                IF e.used = 0 THEN 0 ELSE req[p].snapSince.photo]
                       ELSE since
           /\ IF PhotoLimitReached(ud)
              THEN Respond(p, ud, FALSE, [NoRet EXCEPT
                                          !.status = "resource-exhausted",
                                          !.limit = photoScansLimit(ud),
                                          !.used = photoScansUsed(ud),
                                          !.tier = ud.subscriptionTier])
              ELSE req' = [req EXCEPT ![p].userData = ud, ![p].pc = "provider"]
    /\ UNCHANGED <<usage_logs, now, config, sweptAt>>

\* Variant: the unit is counted when the provider is called, whatever it
\* brings.
VisionProvider_Reserving(p) ==
    /\ req[p].op = "vision" /\ req[p].pc = "provider"
    /\ users' = [users EXCEPT ![User].photoScansUsed = @ + 1]
    /\ \E outcome \in VisionOutcomes, t \in TokenCounts :
          IF outcome = "ok"
          THEN req' = [req EXCEPT ![p].pc = "log", ![p].tokens = t,
                                  ![p].called = TRUE]
          ELSE Respond(p, req[p].userData, TRUE,
                       [NoRet EXCEPT !.status = "internal",
                                     !.detail = ErrorDetail("monthly", "vision", outcome)])
    /\ UNCHANGED <<since, usage_logs, now, config, sweptAt>>

\* the provider call (index.js 203-264): an answer, or an internal error
VisionProvider(p) ==
    /\ req[p].op = "vision" /\ req[p].pc = "provider"
    /\ \E outcome \in VisionOutcomes, t \in TokenCounts :
          IF outcome = "ok"
          THEN req' = [req EXCEPT ![p].pc = "update", ![p].tokens = t,
                                  ![p].called = TRUE]
          ELSE Respond(p, req[p].userData, TRUE,
                       [NoRet EXCEPT !.status = "internal",
                                     !.detail = ErrorDetail("monthly", "vision", outcome)])
    /\ UNCHANGED <<users, since, usage_logs, now, config, sweptAt>>

\* Variant: the update counts the statistics only.
VisionIncrement_StatsOnly(d, tokens) ==
    [d EXCEPT !.lifetimeAPIRequests = @ + 1,
              !.monthlyTokens = @ + tokens,
              !.lastRequestAt = now]

\* userRef.update({photoScansUsed: increment(1), ...}) (index.js 289-296)
VisionIncrement(d, tokens) ==
    [d EXCEPT !.photoScansUsed = @ + 1,
              !.lifetimeAPIRequests = @ + 1,
              !.monthlyTokens = @ + tokens,
              !.lastRequestAt = now]

VisionUpdate(p) ==
    /\ req[p].op = "vision" /\ req[p].pc = "update"
    /\ users' = [users EXCEPT ![User] = VisionIncrement(@, req[p].tokens)]
    /\ since' = [since EXCEPT ![User].photo = IF @ = 0 THEN now ELSE @]
    /\ req' = [req EXCEPT ![p].pc = "log"]
    /\ UNCHANGED <<usage_logs, now, config, sweptAt>>

\* usage_logs.add, awaited inside the try, and the response; an error of
\* the add reaches the catch and is rethrown as `internal` (index.js 299-335)
VisionLog(p) ==
    /\ req[p].op = "vision" /\ req[p].pc = "log"
    /\ \E outcome \in LogOutcomes :
          LET ud == req[p].userData
          IN  IF outcome = "ok"
              THEN /\ usage_logs' = usage_logs \cup
                         {[by |-> p, userId |-> User, service |-> "claude-vision",
                           subscriptionTier |-> ud.subscriptionTier]}
                   /\ Respond(p, ud, TRUE, [NoRet EXCEPT
                             !.status = "ok",
                             !.remaining = Max(0, photoScansLimit(ud)
                                                    - (photoScansUsed(ud) + 1))])
              ELSE /\ usage_logs' = usage_logs
                   /\ Respond(p, ud, TRUE, [NoRet EXCEPT
                             !.status = "internal",
                             !.message = LogFailed])
    /\ UNCHANGED <<users, since, now, config, sweptAt>>

\* ------------------------------------------- callWhisperProxy (index.js)
WhisperGet(p) ==
    /\ MayStart(p)
    /\ \E dev \in Devices : Begin(p, "whisper", dev)
    /\ UNCHANGED <<users, since, usage_logs, now, config, sweptAt>>

WhisperSet(p) ==
    /\ req[p].op = "whisper" /\ req[p].pc = "set"
    /\ users' = [users EXCEPT ![User] = NewActionDoc(req[p].deviceID, getMonthKey)]
    /\ since' = [since EXCEPT ![User] = NoSince]
    /\ req' = [req EXCEPT ![p].pc = "ensure",
                          ![p].userData = WhisperFallback(getMonthKey),
                          ![p].snapSince = NoSince]
    /\ UNCHANGED <<usage_logs, now, config, sweptAt>>

\* ensureMonthlyVoiceReset, then straight on to the provider (index.js 524-532)
WhisperEnsure(p) ==
    /\ req[p].op = "whisper" /\ req[p].pc = "ensure"
    /\ LET e == ensureMonthlyVoiceReset(req[p].userData, getMonthKey)
           ud == VoiceResetOn(req[p].userData, e)
       IN  /\ users' = [users EXCEPT ![User] = VoiceResetOn(@, e)]
           /\ since' = IF e.write
                       THEN [since EXCEPT ![User].voice =
                                IF e.used = 0 THEN 0 ELSE req[p].snapSince.voice]
                       ELSE since
           /\ req' = [req EXCEPT ![p].userData = ud, ![p].pc = "provider"]
    /\ UNCHANGED <<usage_logs, now, config, sweptAt>>

\* axios.post to the transcription provider (index.js 546-557, 590-603)
WhisperProvider(p) ==
    /\ req[p].op = "whisper" /\ req[p].pc = "provider"
    /\ \E outcome \in WhisperOutcomes :
          IF outcome = "ok"
          THEN req' = [req EXCEPT ![p].pc = "update", ![p].called = TRUE]
          ELSE Respond(p, req[p].userData, TRUE,
                       [NoRet EXCEPT !.status = "internal",
                                     !.detail = ErrorDetail("monthly", "whisper", outcome)])
    /\ UNCHANGED <<users, since, usage_logs, now, config, sweptAt>>

\* userRef.update({voiceActionsUsed: increment(1), ...}) (index.js 566-570)
WhisperIncrement(d) ==
    [d EXCEPT !.voiceActionsUsed = @ + 1,
              !.lifetimeAPIRequests = @ + 1,
              !.lastRequestAt = now]

WhisperUpdate(p) ==
    /\ req[p].op = "whisper" /\ req[p].pc = "update"
    /\ users' = [users EXCEPT ![User] = WhisperIncrement(@)]
    /\ since' = [since EXCEPT ![User].voice = IF @ = 0 THEN now ELSE @]
    /\ req' = [req EXCEPT ![p].pc = "log"]
    /\ UNCHANGED <<usage_logs, now, config, sweptAt>>

WhisperLog(p) ==
    /\ req[p].op = "whisper" /\ req[p].pc = "log"
    /\ \E outcome \in LogOutcomes :
          LET ud == req[p].userData
          IN  IF outcome = "ok"
              THEN /\ usage_logs' = usage_logs \cup
                         {[by |-> p, userId |-> User, service |-> "whisper",
                           subscriptionTier |-> ud.subscriptionTier]}
                   /\ Respond(p, ud, TRUE, [NoRet EXCEPT
                             !.status = "ok",
                             !.remaining = Max(0, voiceActionsLimit(ud)
                                                    - (voiceActionsUsed(ud) + 1))])
              ELSE /\ usage_logs' = usage_logs
                   /\ Respond(p, ud, TRUE, [NoRet EXCEPT
                             !.status = "internal",
                             !.message = LogFailed])
    /\ UNCHANGED <<users, since, now, config, sweptAt>>

\* ------------------------------------------------ getUserUsage (index.js)
UsageGet(p) ==
    /\ MayStart(p)
    /\ \E dev \in Devices : Begin(p, "usage", dev)
    /\ UNCHANGED <<users, since, usage_logs, now, config, sweptAt>>

\* userRef.set({...}) and the literal userData (index.js 624-649)
UsageSet(p) ==
    /\ req[p].op = "usage" /\ req[p].pc = "set"
    /\ users' = [users EXCEPT ![User] = NewActionDoc(req[p].deviceID, getMonthKey)]
    /\ since' = [since EXCEPT ![User] = NoSince]
    /\ req' = [req EXCEPT ![p].pc = "ensure",
                          ![p].userData = VisionFallback(getMonthKey),
                          ![p].snapSince = NoSince]
    /\ UNCHANGED <<usage_logs, now, config, sweptAt>>

\* ensureMonthlyVoiceReset (index.js 651)
UsageEnsureVoice(p) ==
    /\ req[p].op = "usage" /\ req[p].pc = "ensure"
    /\ LET e == ensureMonthlyVoiceReset(req[p].userData, getMonthKey)
       IN  /\ users' = [users EXCEPT ![User] = VoiceResetOn(@, e)]
           /\ since' = IF e.write
                       THEN [since EXCEPT ![User].voice =
                                IF e.used = 0 THEN 0 ELSE req[p].snapSince.voice]
                       ELSE since
           /\ req' = [req EXCEPT ![p].userData = VoiceResetOn(@, e),
                                 ![p].pc = "ensurePhoto"]
    /\ UNCHANGED <<usage_logs, now, config, sweptAt>>

\* Variant: the remaining allowance is limit - used as it comes.
UsageResponse_Unclamped(userData) ==
    [voiceActionsUsed |-> voiceActionsUsed(userData),
     voiceActionsLimit |-> voiceActionsLimit(userData),
     remainingVoiceActions |->
         voiceActionsLimit(userData) - voiceActionsUsed(userData),
     photoScansUsed |-> photoScansUsed(userData),
     photoScansLimit |-> photoScansLimit(userData),
     remainingPhotoScans |->
         photoScansLimit(userData) - photoScansUsed(userData),
     subscriptionTier |-> OrStr(userData.subscriptionTier, "free"),
     lifetimeAPIRequests |-> OrNum(userData.lifetimeAPIRequests, 0),
     monthlyTokens |-> OrNum(userData.monthlyTokens, 0),
     lastRequestAt |-> userData.lastRequestAt,
     deviceID |-> userData.deviceID]

\* The object getUserUsage returns, from its userData (index.js 654-677).
UsageResponse(userData) ==
    [voiceActionsUsed |-> voiceActionsUsed(userData),
     voiceActionsLimit |-> voiceActionsLimit(userData),
     remainingVoiceActions |->
         Max(0, voiceActionsLimit(userData) - voiceActionsUsed(userData)),
     photoScansUsed |-> photoScansUsed(userData),
     photoScansLimit |-> photoScansLimit(userData),
     remainingPhotoScans |->
         Max(0, photoScansLimit(userData) - photoScansUsed(userData)),
     subscriptionTier |-> OrStr(userData.subscriptionTier, "free"),
     lifetimeAPIRequests |-> OrNum(userData.lifetimeAPIRequests, 0),
     monthlyTokens |-> OrNum(userData.monthlyTokens, 0),
     lastRequestAt |-> userData.lastRequestAt,
     deviceID |-> userData.deviceID]

\* ensureMonthlyPhotoReset and the response (index.js 652-677)
UsageEnsurePhoto(p) ==
    /\ req[p].op = "usage" /\ req[p].pc = "ensurePhoto"
    /\ LET e == ensureMonthlyPhotoReset(req[p].userData, getMonthKey)
       IN  /\ users' = [users EXCEPT ![User] = PhotoResetOn(@, e)]
           /\ since' = IF e.write
                       THEN [since EXCEPT ![User].photo =
                                IF e.used = 0 THEN 0 ELSE req[p].snapSince.photo]
                       ELSE since
           /\ Respond(p, PhotoResetOn(req[p].userData, e), FALSE,
                      [NoRet EXCEPT
                          !.status = "ok",
                          !.usage = UsageResponse(PhotoResetOn(req[p].userData, e))])
    /\ UNCHANGED <<usage_logs, now, config, sweptAt>>

\* ------------------------------------------ verifySubscription (index.js)
\* A receipt token, as far as the verification looks at it: whether it
\* decodes to a header, whether its kid is Apple_Xcode_Key, whether it
\* carries an x5c certificate, whether any App Store keys could be fetched,
\* whether one of them has its kid, whether its signature verifies.
Tokens ==
    [decodes : BOOLEAN, xcode : BOOLEAN, x5c : BOOLEAN,
     keysFetched : BOOLEAN, kidKnown : BOOLEAN, signed : BOOLEAN]

\* jwt.decode, the choice of the public key and jwtVerify (index.js
\* 705-730, 779-807): "ok", or the message of the error thrown.
VerifyToken(token) ==
    IF ~token.decodes THEN "Invalid JWS token"
    ELSE IF token.xcode /\ ~token.x5c THEN "Missing x5c certificate"
    ELSE IF ~token.xcode /\ ~token.keysFetched
         THEN "Failed to fetch App Store public keys"
    ELSE IF ~token.xcode /\ ~token.kidKnown
         THEN "No matching Apple public key found"
    ELSE IF ~token.signed THEN "signature verification failed"
    ELSE "ok"

ExpiryDates == {now, now + 1}

\* Variant: an expired receipt leaves the stored tier as it is.
SubscriptionUpdate_NoDowngrade(d, expiresDate) ==
    [d EXCEPT !.subscriptionTier = IF expiresDate > now THEN "pro" ELSE @,
              !.subscriptionExpiresAt = expiresDate,
              !.subscriptionProductId = "product",
              !.subscriptionVerifiedAt = now]

\* The update of a verified receipt (index.js 732-741).
SubscriptionUpdate(d, expiresDate) ==
    [d EXCEPT !.subscriptionTier = IF expiresDate > now THEN "pro" ELSE "free",
              !.subscriptionExpiresAt = expiresDate,
              !.subscriptionProductId = "product",
              !.subscriptionVerifiedAt = now]

\* Variant: the record is updated from the decoded payload before the
\* token is verified.
verifySubscription_UpdateFirst(p) ==
    /\ MayStart(p)
    /\ \E token \in Tokens, expiresDate \in ExpiryDates :
          LET verdict == VerifyToken(token)
          IN  /\ users' = [users EXCEPT ![User] =
                      IF @.exists THEN SubscriptionUpdate(@, expiresDate) ELSE @]
              /\ req' = [req EXCEPT ![p] = [IdleReq EXCEPT
                             !.op = "verify",
                             !.pc = "done",
                             !.ret = IF verdict = "ok" /\ users[User].exists
                                     THEN [NoRet EXCEPT
                                             !.status = "ok",
                                             !.isActive = expiresDate > now,
                                             !.tier = IF expiresDate > now
                                                      THEN "pro" ELSE "free"]
                                     ELSE [NoRet EXCEPT
                                             !.status = "internal",
                                             !.message = IF verdict = "ok"
                                                         THEN "NOT_FOUND"
                                                         ELSE verdict]]]
    /\ UNCHANGED <<since, usage_logs, now, config, sweptAt>>

\* decode, verify, update and respond; every failure surfaces as `internal`
\* with the message of the error (index.js 704-753).  update() of a missing
\* document fails with NOT_FOUND.
verifySubscription(p) ==
    /\ MayStart(p)
    /\ \E token \in Tokens, expiresDate \in ExpiryDates :
          LET verdict == VerifyToken(token)
          IN  IF verdict = "ok" /\ users[User].exists
              THEN /\ users' = [users EXCEPT ![User] = SubscriptionUpdate(@, expiresDate)]
                   /\ req' = [req EXCEPT ![p] = [IdleReq EXCEPT
                                  !.op = "verify",
                                  !.pc = "done",
                                  !.ret = [NoRet EXCEPT
                                      !.status = "ok",
                                      !.isActive = expiresDate > now,
                                      !.tier = IF expiresDate > now THEN "pro" ELSE "free"]]]
              ELSE /\ users' = users
                   /\ req' = [req EXCEPT ![p] = [IdleReq EXCEPT
                                  !.op = "verify",
                                  !.pc = "done",
                                  !.ret = [NoRet EXCEPT
                                      !.status = "internal",
                                      !.message = IF verdict = "ok"
                                                  THEN "NOT_FOUND" ELSE verdict]]]
    /\ UNCHANGED <<since, usage_logs, now, config, sweptAt>>

\* ------------------------------------------------------------------ time
Tick ==
    /\ now < MaxMonth
    /\ now' = now + 1
    /\ UNCHANGED <<users, since, usage_logs, req, config, sweptAt>>

\* -------------------------------------------------- monthly deployment
\* Stored counters (used, limit, period key) the monthly code can meet:
\* current and stale keys, legacy limits, and legacy records without a key.
Counters ==
    {[photo |-> <<0, 3, 2>>, voice |-> <<0, 7, 2>>],    \* fresh
     [photo |-> <<2, 3, 2>>, voice |-> <<6, 7, 2>>],    \* one unit left
     [photo |-> <<3, 3, 2>>, voice |-> <<7, 7, 2>>],    \* exhausted this month
     [photo |-> <<3, 3, 1>>, voice |-> <<7, 7, 1>>],    \* exhausted last month
     [photo |-> <<2, 5, 2>>, voice |-> <<6, 5, 2>>],    \* limits of an older default
     [photo |-> <<4, 5, 2>>, voice |-> <<8, 9, 2>>],    \* the same, used above 3 / 7
     [photo |-> <<2, 0, 0>>, voice |-> <<1, 0, 0>>]}    \* no limit, no key stored
Tiers == {"free", "pro", Undefined}

MonthlyDoc(tier, c) ==
    [NoDoc EXCEPT !.exists = TRUE,
                  !.deviceID = "devA",
                  !.subscriptionTier = tier,
                  !.photoScansUsed = c.photo[1],
                  !.photoScansLimit = c.photo[2],
                  !.photoScansDayKey = c.photo[3],
                  !.voiceActionsUsed = c.voice[1],
                  !.voiceActionsLimit = c.voice[2],
                  !.voiceActionsDayKey = c.voice[3],
                  !.createdAt = 1]

MonthlyDocs == {NoDoc} \cup {MonthlyDoc(t, c) : t \in Tiers, c \in Counters}

\* The consumptions counted in a stored counter were made in the month its
\* key names (in month 1 for a record that has no key yet).
SinceOf(d) ==
    [photo |-> IF d.photoScansUsed = 0 THEN 0 ELSE Max(1, d.photoScansDayKey),
     voice |-> IF d.voiceActionsUsed = 0 THEN 0 ELSE Max(1, d.voiceActionsDayKey)]

Setup(deployment, overlap, d) ==
    /\ now = 2
    /\ users = [u \in {User} |-> d]
    /\ usage_logs = {}
    /\ req = [p \in 1..NumReq |-> IdleReq]
    /\ config = [deployment |-> deployment, overlap |-> overlap, first |-> d]

InitMonthly(overlap) ==
    \E d \in MonthlyDocs :
        /\ Setup("monthly", overlap, d)
        /\ since = [u \in {User} |-> SinceOf(d)]
        /\ sweptAt = 0

MonthlyStep ==
    \/ \E p \in Slots : VisionGet(p)
    \/ \E p \in Slots : VisionSet(p)
    \/ \E p \in Slots : VisionEnsure(p)
    \/ \E p \in Slots : VisionProvider(p)
    \/ \E p \in Slots : VisionUpdate(p)
    \/ \E p \in Slots : VisionLog(p)
    \/ \E p \in Slots : WhisperGet(p)
    \/ \E p \in Slots : WhisperSet(p)
    \/ \E p \in Slots : WhisperEnsure(p)
    \/ \E p \in Slots : WhisperProvider(p)
    \/ \E p \in Slots : WhisperUpdate(p)
    \/ \E p \in Slots : WhisperLog(p)
    \/ \E p \in Slots : UsageGet(p)
    \/ \E p \in Slots : UsageSet(p)
    \/ \E p \in Slots : UsageEnsureVoice(p)
    \/ \E p \in Slots : UsageEnsurePhoto(p)
    \/ \E p \in Slots : verifySubscription(p)
    \/ Tick

\* ======================================================================
\* Lifetime-cap deployment (part_002; part_004 is the same code without
\* callClaudeVision).  No period key: the counters are never reset.
\* ======================================================================
LIFETIME_DEFAULT_LIMIT == 3
LifeOps == {"chat", "vision", "whisper"}

\* userRef.set({...}) of an unseen user, per handler.
LifeNewDoc(op, deviceID) ==
    LET base == [NoDoc EXCEPT !.exists = TRUE, !.deviceID = deviceID,
                              !.subscriptionTier = "free", !.createdAt = now]
    IN  CASE op = "chat" ->
               [base EXCEPT !.lifetimeRequests = 0,
                            !.lifetimeLimit = LIFETIME_DEFAULT_LIMIT,
                            !.monthlyTokens = 0]
          [] op = "vision" ->
               [base EXCEPT !.photoScansUsed = 0,
                            !.photoScansLimit = LIFETIME_DEFAULT_LIMIT,
                            !.lifetimeAPIRequests = 0,
                            !.monthlyTokens = 0]
          [] OTHER ->
               [base EXCEPT !.voiceActionsUsed = 0,
                            !.voiceActionsLimit = LIFETIME_DEFAULT_LIMIT,
                            !.lifetimeAPIRequests = 0]

\* userDoc.data() || {...}, per handler.
LifeFallback(op) ==
    LET base == [NoDoc EXCEPT !.subscriptionTier = "free"]
    IN  CASE op = "chat" ->
               [base EXCEPT !.lifetimeRequests = 0,
                            !.lifetimeLimit = LIFETIME_DEFAULT_LIMIT]
          [] op = "vision" ->
               [base EXCEPT !.photoScansUsed = 0,
                            !.photoScansLimit = LIFETIME_DEFAULT_LIMIT]
          [] OTHER ->
               [base EXCEPT !.voiceActionsUsed = 0,
                            !.voiceActionsLimit = LIFETIME_DEFAULT_LIMIT]

\* The limit and the used count each handler compares.
LifeLimit(op, userData) ==
    CASE op = "chat" ->
           IF userData.subscriptionTier = "pro" THEN PRO_LIMIT
           ELSE OrNum(userData.lifetimeLimit, LIFETIME_DEFAULT_LIMIT)
      [] op = "vision" ->
           IF OrStr(userData.subscriptionTier, "free") = "pro" THEN PRO_LIMIT
           ELSE OrNum(userData.photoScansLimit, LIFETIME_DEFAULT_LIMIT)
      [] OTHER ->
           IF userData.subscriptionTier = "pro" THEN PRO_LIMIT
           ELSE OrNum(userData.voiceActionsLimit, LIFETIME_DEFAULT_LIMIT)

LifeUsed(op, userData) ==
    CASE op = "chat" -> OrNum(userData.lifetimeRequests, 0)
      [] op = "vision" -> OrNum(userData.photoScansUsed, 0)
      [] OTHER -> OrNum(userData.voiceActionsUsed, 0)

\* The tier each handler tests and reports (callClaudeVision defaults it).
LifeTier(op, userData) ==
    IF op = "vision" THEN OrStr(userData.subscriptionTier, "free")
    ELSE userData.subscriptionTier

\* Variant: a record over its reported token allowance is refused too.
LifeLimitReached_TokenCapped(op, userData) ==
    \/ /\ LifeUsed(op, userData) >= LifeLimit(op, userData)
       /\ LifeTier(op, userData) = "free"
    \/ userData.monthlyTokens >=
          (IF userData.subscriptionTier = "pro" THEN 10000000 ELSE 100000)

LifeLimitReached(op, userData) ==
    /\ LifeUsed(op, userData) >= LifeLimit(op, userData)
    /\ LifeTier(op, userData) = "free"

\* The update after a successful provider call, per handler.
LifeIncrement(op, d, tokens) ==
    CASE op = "chat" ->
           [d EXCEPT !.lifetimeAPIRequests = @ + 1,
                     !.monthlyTokens = @ + tokens,
                     !.lastRequestAt = now]
      [] op = "vision" ->
           [d EXCEPT !.photoScansUsed = @ + 1,
                     !.lifetimeAPIRequests = @ + 1,
                     !.monthlyTokens = @ + tokens,
                     !.lastRequestAt = now]
      [] OTHER ->
           [d EXCEPT !.voiceActionsUsed = @ + 1,
                     !.lifetimeAPIRequests = @ + 1,
                     !.lastRequestAt = now]

\* remainingRequests / remainingScans of the response, per handler.
LifeRemaining(op, userData) ==
    CASE op = "chat" ->
           (IF userData.subscriptionTier = "pro" THEN PRO_LIMIT
            ELSE OrNum(userData.voiceActionsLimit, LIFETIME_DEFAULT_LIMIT))
           - OrNum(userData.voiceActionsUsed, 0)
      [] op = "vision" ->
           Max(0, LifeLimit(op, userData) - (LifeUsed(op, userData) + 1))
      [] OTHER -> LifeLimit(op, userData) - (LifeUsed(op, userData) + 1)

LifeService(op) ==
    CASE op = "chat" -> "claude" [] op = "vision" -> "claude-vision" [] OTHER -> "whisper"

\* What the provider step can bring: callClaudeVision also rejects an
\* answer without text.
LifeOutcomes(op) ==
    IF op = "vision" THEN {"ok", "empty", "status", "network"}
    ELSE {"ok", "status", "network"}

\* userRef.get()
LifeGet(p) ==
    /\ MayStart(p)
    /\ \E op \in LifeOps, dev \in Devices : Begin(p, op, dev)
    /\ UNCHANGED <<users, since, usage_logs, now, config, sweptAt>>

\* userRef.set({...}) for a document read as missing
LifeSet(p) ==
    /\ req[p].op \in LifeOps /\ req[p].pc = "set"
    /\ users' = [users EXCEPT ![User] = LifeNewDoc(req[p].op, req[p].deviceID)]
    /\ req' = [req EXCEPT ![p].pc = "ensure", ![p].userData = LifeFallback(req[p].op)]
    /\ UNCHANGED <<since, usage_logs, now, config, sweptAt>>

\* Variant: a request from another device than the stored one is refused.
LifeCheck_DeviceBound(p) ==
    /\ req[p].op \in LifeOps /\ req[p].pc = "ensure"
    /\ LET ud == req[p].userData
           op == req[p].op
           mismatch == ud.deviceID # Undefined /\ ud.deviceID # req[p].deviceID
       IN  IF mismatch
           THEN Respond(p, ud, FALSE, [NoRet EXCEPT !.status = "permission-denied"])
           ELSE IF LifeLimitReached(op, ud)
           THEN Respond(p, ud, FALSE, [NoRet EXCEPT
                                       !.status = "resource-exhausted",
                                       !.limit = LifeLimit(op, ud),
                                       !.tier = LifeTier(op, ud)])
           ELSE req' = [req EXCEPT ![p].pc = "provider"]
    /\ UNCHANGED <<users, since, usage_logs, now, config, sweptAt>>

\* the deviceID update on a mismatch, then the limit check
LifeCheck(p) ==
    /\ req[p].op \in LifeOps /\ req[p].pc = "ensure"
    /\ LET ud == req[p].userData
           op == req[p].op
           mismatch == ud.deviceID # Undefined /\ ud.deviceID # req[p].deviceID
       IN  /\ users' = IF mismatch
                       THEN [users EXCEPT ![User].deviceID = req[p].deviceID]
                       ELSE users
           /\ IF LifeLimitReached(op, ud)
              THEN Respond(p, ud, FALSE, [NoRet EXCEPT
                                          !.status = "resource-exhausted",
                                          !.limit = LifeLimit(op, ud),
                                          !.tier = LifeTier(op, ud)])
              ELSE req' = [req EXCEPT ![p].pc = "provider"]
    /\ UNCHANGED <<since, usage_logs, now, config, sweptAt>>

LifeProvider(p) ==
    /\ req[p].op \in LifeOps /\ req[p].pc = "provider"
    /\ \E outcome \in LifeOutcomes(req[p].op), t \in TokenCounts :
          IF outcome = "ok"
          THEN req' = [req EXCEPT ![p].pc = "update", ![p].tokens = t,
                                  ![p].called = TRUE]
          ELSE Respond(p, req[p].userData, TRUE,
                       [NoRet EXCEPT !.status = "internal",
                                     !.detail = ErrorDetail("lifetime", req[p].op, outcome)])
    /\ UNCHANGED <<users, since, usage_logs, now, config, sweptAt>>

LifeUpdate(p) ==
    /\ req[p].op \in LifeOps /\ req[p].pc = "update"
    /\ users' = [users EXCEPT ![User] = LifeIncrement(req[p].op, @, req[p].tokens)]
    /\ req' = [req EXCEPT ![p].pc = "log"]
    /\ UNCHANGED <<since, usage_logs, now, config, sweptAt>>

LifeLog(p) ==
    /\ req[p].op \in LifeOps /\ req[p].pc = "log"
    /\ usage_logs' = usage_logs \cup
          {[by |-> p, userId |-> User, service |-> LifeService(req[p].op),
            subscriptionTier |-> LifeTier(req[p].op, req[p].userData)]}
    /\ Respond(p, req[p].userData, TRUE,
               [NoRet EXCEPT !.status = "ok",
                             !.remaining = LifeRemaining(req[p].op, req[p].userData)])
    /\ UNCHANGED <<users, since, now, config, sweptAt>>

\* getUserUsage of the lifetime deployment: read, create if missing, report.
LifeUsageGet(p) ==
    /\ MayStart(p)
    /\ \E dev \in Devices : Begin(p, "usage", dev)
    /\ UNCHANGED <<users, since, usage_logs, now, config, sweptAt>>

LifeUsageSet(p) ==
    /\ req[p].op = "usage" /\ req[p].pc = "set"
    /\ users' = [users EXCEPT ![User] =
                    [LifeNewDoc("whisper", req[p].deviceID) EXCEPT !.monthlyTokens = 0]]
    /\ req' = [req EXCEPT ![p].pc = "ensure", ![p].userData = LifeFallback("whisper")]
    /\ UNCHANGED <<since, usage_logs, now, config, sweptAt>>

LifeUsageReturn(p) ==
    /\ req[p].op = "usage" /\ req[p].pc = "ensure"
    /\ Respond(p, req[p].userData, FALSE, [NoRet EXCEPT !.status = "ok"])
    /\ UNCHANGED <<users, since, usage_logs, now, config, sweptAt>>

\* Stored records the lifetime code can meet: lifetimeRequests/lifetimeLimit,
\* voiceActionsUsed/Limit and photoScansUsed/Limit.
LifeCounters ==
    {<<0, 3>>,     \* fresh
     <<2, 3>>,     \* one unit left
     <<3, 3>>,     \* exhausted
     <<4, 5>>,     \* a stored limit that is not the default
     <<1, 0>>}     \* no limit stored

LifeDoc(tier, c) ==
    [NoDoc EXCEPT !.exists = TRUE,
                  !.deviceID = "devA",
                  !.subscriptionTier = tier,
                  !.lifetimeRequests = c[1], !.lifetimeLimit = c[2],
                  !.voiceActionsUsed = c[1], !.voiceActionsLimit = c[2],
                  !.photoScansUsed = c[1], !.photoScansLimit = c[2],
                  !.createdAt = 1]

LifeDocs == {NoDoc} \cup {LifeDoc(t, c) : t \in Tiers, c \in LifeCounters}

InitLife(overlap) ==
    \E d \in LifeDocs :
        /\ Setup("lifetime", overlap, d)
        /\ since = [u \in {User} |-> NoSince]
        /\ sweptAt = 0

LifeStep ==
    \/ \E p \in Slots : LifeGet(p)
    \/ \E p \in Slots : LifeSet(p)
    \/ \E p \in Slots : LifeCheck(p)
    \/ \E p \in Slots : LifeProvider(p)
    \/ \E p \in Slots : LifeUpdate(p)
    \/ \E p \in Slots : LifeLog(p)
    \/ \E p \in Slots : LifeUsageGet(p)
    \/ \E p \in Slots : LifeUsageSet(p)
    \/ \E p \in Slots : LifeUsageReturn(p)
    \/ \E p \in Slots : verifySubscription(p)
    \/ Tick

\* ======================================================================
\* Daily-reset deployment (part_000).  `now` counts days here.
\* ======================================================================
DAILY_FREE_LIMIT == 5
DAILY_PRO_LIMIT == 1000
DailyOps == {"chat", "whisper"}

\* userRef.set({...}) of an unseen user (part_000 76-82, 289-294, 468-474)
DailyNewDoc(op) ==
    [NoDoc EXCEPT !.exists = TRUE,
                  !.dailyRequests = 0,
                  !.monthlyTokens = 0,
                  !.subscriptionTier = "free",
                  !.createdAt = now,
                  !.lastResetAt = now]

\* userDoc.data() || {...}
DailyFallback(op) == [NoDoc EXCEPT !.dailyRequests = 0, !.subscriptionTier = "free"]

\* Variant: after the reset the count that was read is still returned.
checkAndResetDailyLimit_KeepCount(userData, today) ==
    LET lastReset == userData.lastResetAt
        newDay == lastReset = 0 \/ lastReset # today
    IN  [write |-> newDay,
         currentRequests |-> OrNum(userData.dailyRequests, 0)]

\* checkAndResetDailyLimit: whether it writes the reset, and what it returns.
checkAndResetDailyLimit(userData, today) ==
    LET lastReset == userData.lastResetAt
        newDay == lastReset = 0 \/ lastReset # today
    IN  [write |-> newDay,
         currentRequests |-> IF newDay THEN 0 ELSE OrNum(userData.dailyRequests, 0)]

DailyResetOn(d, r) ==
    IF r.write THEN [d EXCEPT !.dailyRequests = 0, !.lastResetAt = now] ELSE d

\* Variant: one limit for every tier.
dailyLimit_AnyTier(userData) == DAILY_FREE_LIMIT

dailyLimit(userData) ==
    IF userData.subscriptionTier = "pro" THEN DAILY_PRO_LIMIT ELSE DAILY_FREE_LIMIT

\* The limit check of part_000 (105, 316): whatever the tier.
DailyLimitReached(userData) == userData.dailyRequests >= dailyLimit(userData)

DailyIncrement(op, d, tokens) ==
    IF op = "chat"
    THEN [d EXCEPT !.dailyRequests = @ + 1,
                   !.monthlyTokens = @ + tokens,
                   !.lastRequestAt = now]
    ELSE [d EXCEPT !.dailyRequests = @ + 1,
                   !.lastRequestAt = now]

DailyGet(p) ==
    /\ MayStart(p)
    /\ \E op \in DailyOps : Begin(p, op, Undefined)
    /\ UNCHANGED <<users, since, usage_logs, now, config, sweptAt>>

DailySet(p) ==
    /\ req[p].op \in DailyOps /\ req[p].pc = "set"
    /\ users' = [users EXCEPT ![User] = DailyNewDoc(req[p].op)]
    /\ req' = [req EXCEPT ![p].pc = "ensure", ![p].userData = DailyFallback(req[p].op)]
    /\ UNCHANGED <<since, usage_logs, now, config, sweptAt>>

\* checkAndResetDailyLimit, then the limit check (part_000 91-116, 302-327)
DailyCheck(p) ==
    /\ req[p].op \in DailyOps /\ req[p].pc = "ensure"
    /\ LET r == checkAndResetDailyLimit(req[p].userData, now)
           ud == [req[p].userData EXCEPT !.dailyRequests = r.currentRequests]
       IN  /\ users' = [users EXCEPT ![User] = DailyResetOn(@, r)]
           /\ IF DailyLimitReached(ud)
              THEN Respond(p, ud, FALSE, [NoRet EXCEPT
                                          !.status = "resource-exhausted",
                                          !.limit = dailyLimit(ud),
                                          !.tier = ud.subscriptionTier])
              ELSE req' = [req EXCEPT ![p].userData = ud, ![p].pc = "provider"]
    /\ UNCHANGED <<since, usage_logs, now, config, sweptAt>>

DailyProvider(p) ==
    /\ req[p].op \in DailyOps /\ req[p].pc = "provider"
    /\ \E outcome \in ProviderOutcomes, t \in TokenCounts :
          IF outcome = "ok"
          THEN req' = [req EXCEPT ![p].pc = "update", ![p].tokens = t,
                                  ![p].called = TRUE]
          ELSE Respond(p, req[p].userData, TRUE, [NoRet EXCEPT !.status = "internal"])
    /\ UNCHANGED <<users, since, usage_logs, now, config, sweptAt>>

DailyUpdate(p) ==
    /\ req[p].op \in DailyOps /\ req[p].pc = "update"
    /\ users' = [users EXCEPT ![User] = DailyIncrement(req[p].op, @, req[p].tokens)]
    /\ req' = [req EXCEPT ![p].pc = "log"]
    /\ UNCHANGED <<since, usage_logs, now, config, sweptAt>>

DailyLog(p) ==
    /\ req[p].op \in DailyOps /\ req[p].pc = "log"
    /\ usage_logs' = usage_logs \cup
          {[by |-> p, userId |-> User,
            service |-> IF req[p].op = "chat" THEN "claude" ELSE "whisper",
            subscriptionTier |-> req[p].userData.subscriptionTier]}
    /\ Respond(p, req[p].userData, TRUE,
               [NoRet EXCEPT !.status = "ok",
                             !.remaining = dailyLimit(req[p].userData)
                                             - (req[p].userData.dailyRequests + 1)])
    /\ UNCHANGED <<users, since, now, config, sweptAt>>

DailyUsageGet(p) ==
    /\ MayStart(p)
    /\ Begin(p, "usage", Undefined)
    /\ UNCHANGED <<users, since, usage_logs, now, config, sweptAt>>

DailyUsageSet(p) ==
    /\ req[p].op = "usage" /\ req[p].pc = "set"
    /\ users' = [users EXCEPT ![User] = DailyNewDoc("usage")]
    /\ req' = [req EXCEPT ![p].pc = "ensure", ![p].userData = DailyFallback("usage")]
    /\ UNCHANGED <<since, usage_logs, now, config, sweptAt>>

DailyUsageReturn(p) ==
    /\ req[p].op = "usage" /\ req[p].pc = "ensure"
    /\ LET r == checkAndResetDailyLimit(req[p].userData, now)
           ud == [req[p].userData EXCEPT !.dailyRequests = r.currentRequests]
       IN  /\ users' = [users EXCEPT ![User] = DailyResetOn(@, r)]
           /\ Respond(p, ud, FALSE, [NoRet EXCEPT !.status = "ok"])
    /\ UNCHANGED <<since, usage_logs, now, config, sweptAt>>

\* Variant: the job resets every record, whatever its tier.
resetDailyLimits_EveryTier ==
    /\ sweptAt < now
    /\ sweptAt' = now
    /\ users' = [u \in DOMAIN users |->
                    IF users[u].exists
                    THEN [users[u] EXCEPT !.dailyRequests = 0, !.lastResetAt = now]
                    ELSE users[u]]
    /\ UNCHANGED <<since, usage_logs, req, now, config>>

\* The scheduled job: once a day, every free record (part_000 507-537).
resetDailyLimits ==
    /\ sweptAt < now
    /\ sweptAt' = now
    /\ users' = [u \in DOMAIN users |->
                    IF users[u].exists /\ users[u].subscriptionTier = "free"
                    THEN [users[u] EXCEPT !.dailyRequests = 0, !.lastResetAt = now]
                    ELSE users[u]]
    /\ UNCHANGED <<since, usage_logs, req, now, config>>

\* Stored (dailyRequests, lastResetAt) pairs.
DailyCounters == {<<0, 2>>, <<4, 2>>, <<5, 2>>, <<5, 1>>, <<3, 0>>}
DailyProCounters == {<<999, 2>>, <<1000, 2>>, <<1000, 1>>}

DailyDoc(tier, c) ==
    [NoDoc EXCEPT !.exists = TRUE,
                  !.subscriptionTier = tier,
                  !.dailyRequests = c[1],
                  !.lastResetAt = c[2],
                  !.createdAt = 1]

DailyDocs ==
    {NoDoc} \cup {DailyDoc(t, c) : t \in Tiers, c \in DailyCounters}
            \cup {DailyDoc("pro", c) : c \in DailyProCounters}

InitDaily(overlap) ==
    \E d \in DailyDocs :
        /\ Setup("daily", overlap, d)
        /\ since = [u \in {User} |-> NoSince]
        /\ sweptAt = 2

DailyStep ==
    \/ \E p \in Slots : DailyGet(p)
    \/ \E p \in Slots : DailySet(p)
    \/ \E p \in Slots : DailyCheck(p)
    \/ \E p \in Slots : DailyProvider(p)
    \/ \E p \in Slots : DailyUpdate(p)
    \/ \E p \in Slots : DailyLog(p)
    \/ \E p \in Slots : DailyUsageGet(p)
    \/ \E p \in Slots : DailyUsageSet(p)
    \/ \E p \in Slots : DailyUsageReturn(p)
    \/ resetDailyLimits
    \/ Tick

\* ======================================================================
\* Specifications
\* ======================================================================
\* The monthly deployment (index.js), requests overlapping freely.
Init == InitMonthly(TRUE)
Next == MonthlyStep
Spec == Init /\ [][Next]_vars

\* The monthly deployment, the requests of the user one after the other.
InitSeq == InitMonthly(FALSE)
NextSeq == MonthlyStep
SpecSeq == InitSeq /\ [][NextSeq]_vars

\* The lifetime-cap deployment (part_002, part_004), requests overlapping.
InitLifetime == InitLife(TRUE)
NextLifetime == LifeStep
SpecLife == InitLifetime /\ [][NextLifetime]_vars

\* The daily-reset deployment (part_000), requests overlapping.
InitDay == InitDaily(TRUE)
NextDay == DailyStep
SpecDaily == InitDay /\ [][NextDay]_vars

\* Whichever of the monthly and lifetime codes is deployed.
InitEither == InitMonthly(TRUE) \/ InitLife(TRUE)
NextEither ==
    \/ config.deployment = "monthly" /\ MonthlyStep
    \/ config.deployment = "lifetime" /\ LifeStep
SpecEither == InitEither /\ [][NextEither]_vars

\* ======================================================================
\* The two photo gates side by side
\* ======================================================================
\* What callClaudeVision of index.js decides on a record it has read, and
\* the record it leaves: ensureMonthlyPhotoReset, then the limit check
\* (index.js 153-177).
VisionGate(userData) ==
    LET e == ensureMonthlyPhotoReset(userData, getMonthKey)
        ud == PhotoResetOn(userData, e)
    IN  [admit |-> ~PhotoLimitReached(ud), left |-> ud]

\* What callClaudeVision of part_002 decides on a record it has read, and
\* the record it leaves (part_002 351-385); the deviceID aside, it writes
\* nothing before the check.
LifeVisionGate(userData) ==
    [admit |-> ~LifeLimitReached("vision", userData), left |-> userData]

\* Records put before both gates: tier, photoScansUsed, photoScansLimit,
\* the key of the current month.
GateUsed == {0, 2, 3, 4, 5, 6}
GateLimits == {0, 2, 3, 5}
GateDocs ==
    {[NoDoc EXCEPT !.exists = TRUE,
                   !.deviceID = "devB",
                   !.subscriptionTier = t,
                   !.photoScansUsed = u,
                   !.photoScansLimit = l,
                   !.photoScansDayKey = 2,
                   !.createdAt = 1] : t \in Tiers, u \in GateUsed, l \in GateLimits}

GateOutcome(op, g) ==
    [IdleReq EXCEPT !.op = op,
                    !.pc = "done",
                    !.userData = g.left,
                    !.ret = [NoRet EXCEPT !.status =
                                IF g.admit THEN "ok" ELSE "resource-exhausted"]]

\* The monthly gate applied to the record; its outcome is kept in slot 1.
GateMonthly ==
    /\ Idle(1)
    /\ req' = [req EXCEPT ![1] = GateOutcome("gate-monthly", VisionGate(users[User]))]
    /\ UNCHANGED <<users, since, usage_logs, now, config, sweptAt>>

\* The lifetime gate applied to the same record; its outcome in slot 2.
GateLifetime ==
    /\ Idle(2)
    /\ req' = [req EXCEPT ![2] = GateOutcome("gate-lifetime", LifeVisionGate(users[User]))]
    /\ UNCHANGED <<users, since, usage_logs, now, config, sweptAt>>

InitGate ==
    \E d \in GateDocs :
        /\ Setup("gates", TRUE, d)
        /\ since = [u \in {User} |-> NoSince]
        /\ sweptAt = 0
NextGate == GateMonthly \/ GateLifetime
SpecGate == InitGate /\ [][NextGate]_vars

\* ======================================================================
\* The argument checks of index.js
\* ======================================================================
MAX_IMAGE_MB == 5
MAX_AUDIO_MB == 25
validTypes == {"image/jpeg", "image/png", "image/webp", "image/gif"}
MonthlyOps == {"vision", "whisper", "usage", "verify"}

\* Variant: the image size is not looked at.
Validate_AnySize(op, input) ==
    IF ~input.auth THEN "unauthenticated"
    ELSE IF op = "usage" THEN "pass"
    ELSE IF ~input.payload THEN "invalid-argument"
    ELSE IF op = "vision" /\ OrStr(input.imageType, "image/jpeg") \notin validTypes
         THEN "invalid-argument"
    ELSE IF op = "whisper" /\ input.sizeMB > MAX_AUDIO_MB THEN "invalid-argument"
    ELSE "pass"

\* The checks each handler makes before its try block, in their order
\* (index.js 84-116, 473-494, 612-614, 693-702): the error code, or "pass".
Validate(op, input) ==
    IF ~input.auth THEN "unauthenticated"
    ELSE IF op = "usage" THEN "pass"
    ELSE IF ~input.payload THEN "invalid-argument"
    ELSE IF op = "vision" /\ OrStr(input.imageType, "image/jpeg") \notin validTypes
         THEN "invalid-argument"
    ELSE IF op = "vision" /\ input.sizeMB > MAX_IMAGE_MB THEN "invalid-argument"
    ELSE IF op = "whisper" /\ input.sizeMB > MAX_AUDIO_MB THEN "invalid-argument"
    ELSE "pass"

\* Requests of every kind, at and around the limits the checks draw.
Inputs(op) ==
    CASE op = "vision" ->
           [auth : BOOLEAN, payload : BOOLEAN,
            imageType : {Undefined, "image/jpeg", "image/bmp"},
            sizeMB : {MAX_IMAGE_MB, MAX_IMAGE_MB + 1}]
      [] op = "whisper" ->
           [auth : BOOLEAN, payload : BOOLEAN, imageType : {Undefined},
            sizeMB : {MAX_AUDIO_MB, MAX_AUDIO_MB + 1}]
      [] op = "verify" ->
           [auth : BOOLEAN, payload : BOOLEAN, imageType : {Undefined}, sizeMB : {0}]
      [] OTHER ->
           [auth : BOOLEAN, payload : {TRUE}, imageType : {Undefined}, sizeMB : {0}]

\* A request arrives: the argument checks, then (for callClaudeVision,
\* callWhisperProxy and getUserUsage) userRef.get(), or (for
\* verifySubscription) the verification and its update.
Receive(p) ==
    /\ MayStart(p)
    /\ \E op \in MonthlyOps, dev \in Devices : \E input \in Inputs(op) :
          LET v == Validate(op, input)
          IN  IF v # "pass"
              THEN /\ req' = [req EXCEPT ![p] = [IdleReq EXCEPT
                                  !.op = op, !.pc = "done", !.input = input,
                                  !.ret = [NoRet EXCEPT !.status = v]]]
                   /\ UNCHANGED <<users, since, usage_logs, now, config, sweptAt>>
              ELSE IF op = "verify"
              THEN verifySubscription(p)
              ELSE /\ req' = [req EXCEPT ![p] = [IdleReq EXCEPT
                                  !.op = op,
                                  !.input = input,
                                  !.deviceID = dev,
                                  !.userData = users[User],
                                  !.snapSince = since[User],
                                  !.pc = IF users[User].exists THEN "ensure" ELSE "set"]]
                   /\ UNCHANGED <<users, since, usage_logs, now, config, sweptAt>>

\* Records the argument checks are tried on: none, and a free record with
\* one unit left.
ValidDocs == {NoDoc, MonthlyDoc("free", [photo |-> <<2, 3, 2>>, voice |-> <<6, 7, 2>>])}

InitValid ==
    \E d \in ValidDocs :
        /\ Setup("monthly", TRUE, d)
        /\ since = [u \in {User} |-> SinceOf(d)]
        /\ sweptAt = 0
NextValid ==
    \/ \E p \in Slots : Receive(p)
    \/ MonthlyStep
SpecValid == InitValid /\ [][NextValid]_vars

\* ======================================================================
\* A subscription bought while the record is being created
\* ======================================================================
\* The monthly deployment from a user without a record, with room for one
\* request more: two that find no record, and verifySubscription, which
\* needs the record one of them creates.
InitFresh ==
    /\ now = 2
    /\ users = [u \in {User} |-> NoDoc]
    /\ usage_logs = {}
    /\ req = [p \in 1..(NumReq + 1) |-> IdleReq]
    /\ config = [deployment |-> "monthly", overlap |-> TRUE, first |-> NoDoc]
    /\ since = [u \in {User} |-> SinceOf(NoDoc)]
    /\ sweptAt = 0
NextFresh == MonthlyStep
SpecFresh == InitFresh /\ [][NextFresh]_vars

\* ======================================================================
\* The gates and the statistics fields
\* ======================================================================
\* The monthlyLimit getUserUsage reports (part_002 770, part_000 488).
MONTHLY_TOKEN_LIMIT == 100000
PRO_MONTHLY_TOKEN_LIMIT == 10000000

\* What each version decides on a record it has read: admit (TRUE) or
\* reject with resource-exhausted.  index.js: callClaudeVision 153-177,
\* callWhisperProxy has no check; part_002/part_004: the check of each
\* handler; part_000: checkAndResetDailyLimit and the check (92-105).
Admits(deployment, op, userData) ==
    CASE deployment = "monthly" ->
           IF op = "vision" THEN VisionGate(userData).admit ELSE TRUE
      [] deployment = "lifetime" -> ~LifeLimitReached(op, userData)
      [] OTHER ->
           LET r == checkAndResetDailyLimit(userData, now)
           IN  ~DailyLimitReached([userData EXCEPT !.dailyRequests = r.currentRequests])

GatedOps(deployment) ==
    CASE deployment = "monthly" -> {"vision", "whisper"}
      [] deployment = "lifetime" -> LifeOps
      [] OTHER -> DailyOps

\* Values of monthlyTokens and lifetimeAPIRequests, up to above the
\* reported allowances.
TokenStats == {0, MONTHLY_TOKEN_LIMIT + 1, PRO_MONTHLY_TOKEN_LIMIT + 1}
RequestStats == {0, 3, 1000}

StatsOutcome(op, userData, admit) ==
    [IdleReq EXCEPT !.op = op,
                    !.pc = "done",
                    !.userData = userData,
                    !.ret = [NoRet EXCEPT !.status =
                                IF admit THEN "ok" ELSE "resource-exhausted"]]

\* The stored record put before the gate of an action; the outcome is kept
\* in slot 1.
StatsDecide ==
    /\ Idle(1)
    /\ \E op \in GatedOps(config.deployment) :
          req' = [req EXCEPT ![1] =
                     StatsOutcome(op, users[User],
                                  Admits(config.deployment, op, users[User]))]
    /\ UNCHANGED <<users, since, usage_logs, now, config, sweptAt>>

\* The same record with other statistics put before the same gate; the
\* outcome is kept in slot 2.
StatsDecideAgain ==
    /\ Finished(1) /\ Idle(2)
    /\ \E t \in TokenStats, n \in RequestStats :
          LET other == [users[User] EXCEPT !.monthlyTokens = t,
                                           !.lifetimeAPIRequests = n]
          IN  req' = [req EXCEPT ![2] =
                         StatsOutcome(req[1].op, other,
                                      Admits(config.deployment, req[1].op, other))]
    /\ UNCHANGED <<users, since, usage_logs, now, config, sweptAt>>

\* The stored records of every version.
StatsDocs(deployment) ==
    {d \in (CASE deployment = "monthly" -> MonthlyDocs
               [] deployment = "lifetime" -> LifeDocs
               [] OTHER -> DailyDocs) : d.exists}

InitStats ==
    \E deployment \in {"monthly", "lifetime", "daily"} :
        \E d \in StatsDocs(deployment) :
            /\ Setup(deployment, TRUE, d)
            /\ since = [u \in {User} |-> NoSince]
            /\ sweptAt = 0
NextStats == StatsDecide \/ StatsDecideAgain
SpecStats == InitStats /\ [][NextStats]_vars

\* ======================================================================
\* The model fallback of callClaudeVision (index.js 191-264), call by call
\* ======================================================================
modelFallbacks ==
    <<"claude-sonnet-4-5-20250929", "claude-sonnet-4-20250514",
      "claude-haiku-4-5-20251001", "claude-3-5-haiku-20241022",
      "claude-3-haiku-20240307">>

\* What one fetch brings: a response that is ok; a response with status 404
\* or with not_found in its body; a response with another error status; no
\* response (fetch, or the reading of the body, throws).
ModelOutcomes == {"ok", "not-found", "status", "network"}

\* The request as it ends inside the loop or right after it.
FallbackFailed(p, tried, detail) ==
    [IdleReq EXCEPT !.op = req[p].op,
                    !.pc = "done",
                    !.userData = req[p].userData,
                    !.called = TRUE,
                    !.ret = [NoRet EXCEPT !.status = "internal", !.detail = detail],
                    !.tried = tried]

\* Variant: every response that is not ok moves on to the next model.
VisionCall_SkipOnStatus(p) ==
    /\ req[p].op = "vision" /\ req[p].pc = "provider"
    /\ Len(req[p].tried) < Len(modelFallbacks)
    /\ \E outcome \in ModelOutcomes, t \in TokenCounts :
          LET tried == Append(req[p].tried, outcome)
              last == Len(tried) = Len(modelFallbacks)
          IN  IF outcome = "ok"
              THEN req' = [req EXCEPT ![p].pc = "update", ![p].tokens = t,
                                      ![p].called = TRUE, ![p].tried = tried]
              ELSE IF last
              THEN req' = [req EXCEPT ![p] = FallbackFailed(p, tried,
                               IF outcome = "network" THEN "error" ELSE "body")]
              ELSE req' = [req EXCEPT ![p].tried = tried]
    /\ UNCHANGED <<users, since, usage_logs, now, config, sweptAt>>

\* Variant: after the last model the list is gone through again.
VisionCall_Again(p) ==
    /\ req[p].op = "vision" /\ req[p].pc = "provider"
    /\ Len(req[p].tried) < Len(modelFallbacks)
    /\ \E outcome \in ModelOutcomes, t \in TokenCounts :
          LET tried == Append(req[p].tried, outcome)
              last == Len(tried) = Len(modelFallbacks)
          IN  IF outcome = "ok"
              THEN req' = [req EXCEPT ![p].pc = "update", ![p].tokens = t,
                                      ![p].called = TRUE, ![p].tried = tried]
              ELSE IF outcome = "status"
              THEN req' = [req EXCEPT ![p] = FallbackFailed(p, tried, "status")]
              ELSE IF last
              THEN req' = [req EXCEPT ![p].tried = <<>>]
              ELSE req' = [req EXCEPT ![p].tried = tried]
    /\ UNCHANGED <<users, since, usage_logs, now, config, sweptAt>>

\* One turn of `for (const model of modelFallbacks)`: the fetch of the next
\* model and what the loop does with its outcome (index.js 203-264).  An ok
\* response ends the loop with the result; 404 / not_found continues; any
\* other status throws at once; a thrown error continues, and is rethrown
\* on the last model; with no result after the last model the function
\* throws with the last error text.
VisionCall(p) ==
    /\ req[p].op = "vision" /\ req[p].pc = "provider"
    /\ Len(req[p].tried) < Len(modelFallbacks)
    /\ \E outcome \in ModelOutcomes, t \in TokenCounts :
          LET tried == Append(req[p].tried, outcome)
              last == Len(tried) = Len(modelFallbacks)
          IN  IF outcome = "ok"
              THEN req' = [req EXCEPT ![p].pc = "update", ![p].tokens = t,
                                      ![p].called = TRUE, ![p].tried = tried]
              ELSE IF outcome = "status"
              THEN req' = [req EXCEPT ![p] = FallbackFailed(p, tried, "status")]
              ELSE IF last
              THEN req' = [req EXCEPT ![p] = FallbackFailed(p, tried,
                               IF outcome = "network" THEN "error" ELSE "body")]
              ELSE req' = [req EXCEPT ![p].tried = tried]
    /\ UNCHANGED <<users, since, usage_logs, now, config, sweptAt>>

\* callClaudeVision requests one after the other within one month, the
\* provider seen call by call; the user has no record yet, or a free or pro
\* record with the limit of 3 scans.
FallbackDocs ==
    {d \in MonthlyDocs :
        \/ ~d.exists
        \/ /\ d.subscriptionTier \in {"free", "pro"}
           /\ d.photoScansLimit = FREE_PHOTO_LIMIT}

InitFallback ==
    \E d \in FallbackDocs :
        /\ Setup("monthly", FALSE, d)
        /\ since = [u \in {User} |-> SinceOf(d)]
        /\ sweptAt = 0
NextFallback ==
    \/ \E p \in Slots : VisionGet(p)
    \/ \E p \in Slots : VisionSet(p)
    \/ \E p \in Slots : VisionEnsure(p)
    \/ \E p \in Slots : VisionCall(p)
    \/ \E p \in Slots : VisionUpdate(p)
    \/ \E p \in Slots : VisionLog(p)
SpecFallback == InitFallback /\ [][NextFallback]_vars
\* Every ledger operation and every provider call returns or fails.
LiveFallback == SpecFallback /\ WF_vars(NextFallback)

\* ======================================================================
\* Properties
\* ======================================================================

\* C1 (Spec): the run starts from a free record of the current month with
\* limit 3 and R scans left, R below the number of requests; all requests
\* are callClaudeVision, overlap freely and have all ended as a success or
\* a quota rejection.  Then exactly R succeeded, the others were rejected,
\* and the stored photoScansUsed does not exceed the limit.
C1_ExactlyRemainingSucceed ==
    LET d == config.first
        R == FREE_PHOTO_LIMIT - d.photoScansUsed
        ok == {p \in Slots : /\ Finished(p) /\ req[p].op = "vision"
                             /\ req[p].ret.status = "ok"}
        rejected == {p \in Slots : /\ Finished(p) /\ req[p].op = "vision"
                                   /\ req[p].ret.status = "resource-exhausted"}
    IN  (/\ d.exists /\ d.subscriptionTier = "free"
         /\ d.photoScansLimit = FREE_PHOTO_LIMIT
         /\ d.photoScansDayKey = now
         /\ R >= 0 /\ R < NumReq
         /\ ok \cup rejected = Slots)
        => /\ Cardinality(ok) = R
           /\ Cardinality(rejected) = NumReq - R
           /\ users[User].photoScansUsed <= FREE_PHOTO_LIMIT

\* C2 (SpecSeq): requests one after the other; once a callClaudeVision has
\* got its answer and counted it (and until the next request starts), a
\* stored record of tier free has photoScansUsed <= its effective limit.
C2_UsedWithinLimitAfterSuccess ==
    \A p \in Slots :
        (/\ req[p].op = "vision"
         /\ \/ req[p].pc = "log"
            \/ Finished(p) /\ req[p].ret.status = "ok"
         /\ \A q \in Slots : q > p => Idle(q)
         /\ users[User].subscriptionTier = "free")
        => photoScansUsed(users[User]) <= photoScansLimit(users[User])

\* C2 witness: a scan succeeded on a free record and took the last unit.
C2_Witness ==
    \E p \in Slots :
        /\ req[p].op = "vision" /\ Finished(p) /\ req[p].ret.status = "ok"
        /\ \A q \in Slots : q > p => Idle(q)
        /\ users[User].subscriptionTier = "free"
        /\ photoScansUsed(users[User]) = photoScansLimit(users[User])

\* C3 (SpecSeq): from a free record of the current month with limit 3 and
\* used 2, the first callClaudeVision that succeeds returns remaining 0 and
\* leaves used = 3; a second callClaudeVision in the same month is rejected
\* with resource-exhausted, limit 3, tier free, without a provider call.
C3_LastScanThenRejected ==
    LET d == config.first
    IN  (/\ d.exists /\ d.subscriptionTier = "free"
         /\ d.photoScansDayKey = now
         /\ d.photoScansLimit = 3 /\ d.photoScansUsed = 2
         /\ req[1].op = "vision" /\ Finished(1) /\ req[1].ret.status = "ok")
        => /\ req[1].ret.remaining = 0
           /\ Idle(2) => users[User].photoScansUsed = 3
           /\ (req[2].op = "vision" /\ Finished(2))
                 => /\ req[2].ret.status = "resource-exhausted"
                    /\ req[2].ret.limit = 3
                    /\ req[2].ret.tier = "free"
                    /\ ~req[2].called

\* C3 witness: the second scan of that run has been answered.
C3_Witness ==
    /\ config.first.exists /\ config.first.subscriptionTier = "free"
    /\ config.first.photoScansDayKey = now
    /\ config.first.photoScansLimit = 3 /\ config.first.photoScansUsed = 2
    /\ req[1].op = "vision" /\ Finished(1) /\ req[1].ret.status = "ok"
    /\ req[2].op = "vision" /\ Finished(2)
    /\ req[2].ret.status = "resource-exhausted"
    /\ users[User].photoScansUsed = 3

\* C4 (SpecSeq): a callWhisperProxy request whose record, after the monthly
\* rollover, is free with voiceActionsUsed >= voiceActionsLimit never gets
\* past the check: it ends rejected with resource-exhausted and the
\* provider is not called.
C4_WhisperRejectedAtLimit ==
    \A p \in Slots :
        (/\ req[p].op = "whisper"
         /\ req[p].pc \in {"provider", "update", "log", "done"}
         /\ req[p].userData.subscriptionTier = "free"
         /\ voiceActionsUsed(req[p].userData) >= voiceActionsLimit(req[p].userData))
        => /\ Finished(p)
           /\ req[p].ret.status = "resource-exhausted"
           /\ ~req[p].called

\* C5 (SpecLife): once a callClaudeProxy request on a free record has got
\* its answer and made its update, the stored lifetimeRequests (the counter
\* its check read) is above the value the request read.
C5_ChatSuccessCountsTowardsLimit ==
    \A p \in Slots :
        (/\ req[p].op = "chat"
         /\ req[p].pc = "log"
         /\ req[p].userData.subscriptionTier = "free")
        => users[User].lifetimeRequests > LifeUsed("chat", req[p].userData)

\* C6 (SpecEither): in the monthly and in the lifetime code, a
\* callClaudeVision or callWhisperProxy request that read a record of tier
\* pro never ends with resource-exhausted, whatever used and limit it read;
\* it fails only after the provider was called and did not answer usably.
C6_ProNeverRejectedForQuota ==
    \A p \in Slots :
        (/\ req[p].op \in {"vision", "whisper"}
         /\ Finished(p)
         /\ req[p].userData.subscriptionTier = "pro")
        => /\ req[p].ret.status # "resource-exhausted"
           /\ req[p].ret.status # "ok"
                 => req[p].called /\ req[p].ret.status = "internal"

\* C6 witness: a pro record with used >= its stored limit had a scan
\* answered.
C6_Witness ==
    \E p \in Slots :
        /\ req[p].op = "vision" /\ Finished(p) /\ req[p].ret.status = "ok"
        /\ req[p].userData.subscriptionTier = "pro"
        /\ req[p].userData.photoScansLimit > 0
        /\ req[p].userData.photoScansUsed >= req[p].userData.photoScansLimit

C8_RolloverThenAdmitted ==
    [][LET d == config.first
       IN  (/\ d.exists /\ d.subscriptionTier = "free"
            /\ d.photoScansUsed = d.photoScansLimit
            /\ d.photoScansLimit = FREE_PHOTO_LIMIT
            /\ d.photoScansDayKey # 0 /\ d.photoScansDayKey < 2
            /\ req'[1].op = "vision")
           => /\ (req[1].pc = "ensure" /\ req'[1].pc # "ensure")
                    => /\ users'[User].photoScansUsed = 0
                       /\ users'[User].photoScansDayKey = now
                       /\ req'[1].pc = "provider"
                       /\ req'[1].userData.photoScansUsed = 0
              /\ req'[1].pc = "done"
                    => req'[1].ret.status # "resource-exhausted"
              /\ (\/ req'[1].pc = "log"
                  \/ /\ req'[1].pc = "done" /\ req'[1].ret.status = "ok"
                     /\ req'[2].pc = "idle")
                    => users'[User].photoScansUsed = 1]_vars

\* C8 witness: that first scan of the new month was answered and counted.
C8_Witness ==
    /\ config.first.exists /\ config.first.subscriptionTier = "free"
    /\ config.first.photoScansUsed = FREE_PHOTO_LIMIT
    /\ config.first.photoScansLimit = FREE_PHOTO_LIMIT
    /\ config.first.photoScansDayKey = 1
    /\ req[1].op = "vision" /\ Finished(1) /\ req[1].ret.status = "ok"
    /\ users[User].photoScansUsed = 1
    /\ users[User].photoScansDayKey = now

\* C9 (Spec): whenever the stored photoScansDayKey (voiceActionsDayKey)
\* names the current month, the stored photoScansUsed (voiceActionsUsed)
\* holds no count from an earlier month: the oldest consumption still
\* counted in it, if any, is of the current month.
C9_NoStaleCountUnderCurrentKey ==
    LET d == users[User]
    IN  d.exists
        => /\ (d.photoScansDayKey = now /\ d.photoScansUsed > 0)
                 => since[User].photo = now
           /\ (d.voiceActionsDayKey = now /\ d.voiceActionsUsed > 0)
                 => since[User].voice = now

\* C9 witness: a record exhausted in an earlier month has been rolled over
\* and has counted a scan of the current month.
C9_Witness ==
    /\ config.first.exists /\ config.first.subscriptionTier = "free"
    /\ config.first.photoScansDayKey = 1
    /\ config.first.photoScansUsed = FREE_PHOTO_LIMIT
    /\ users[User].photoScansDayKey = now
    /\ users[User].photoScansUsed = 1
    /\ since[User].photo = now

\* C10 (SpecLife): no step of the lifetime code, and no passing of time,
\* changes the voiceActionsUsed or photoScansUsed of an existing record
\* except by +1.
C10_UsedOnlyGrowsByOne ==
    [][users[User].exists
         => /\ users'[User].voiceActionsUsed \in
                  {users[User].voiceActionsUsed, users[User].voiceActionsUsed + 1}
            /\ users'[User].photoScansUsed \in
                  {users[User].photoScansUsed, users[User].photoScansUsed + 1}]_vars

\* C11 as stated (SpecGate): for a record of the current month, the photo
\* gate of index.js and the photo gate of part_002 decide alike and leave
\* the same photoScansUsed and photoScansLimit, whatever the tier, the used
\* count and the stored limit.
C11_GatesAgree ==
    (Finished(1) /\ Finished(2))
    => /\ req[1].ret.status = req[2].ret.status
       /\ req[1].userData.photoScansUsed = req[2].userData.photoScansUsed
       /\ req[1].userData.photoScansLimit = req[2].userData.photoScansLimit

\* C11 amended (SpecGate): the two gates decide alike and leave the same
\* used and limit for a pro record, and for a free record whose stored
\* limit is the default 3 or absent.  For a free record with another
\* stored limit the gate of index.js stores limit 3 and decides on
\* used >= 3, while the gate of part_002 keeps the stored limit and decides
\* on it.
C11_GatesAgreeOnDefaultLimit ==
    LET d == users[User]
    IN  (Finished(1) /\ Finished(2))
        => /\ (\/ d.subscriptionTier = "pro"
               \/ /\ d.subscriptionTier = "free"
                  /\ OrNum(d.photoScansLimit, FREE_PHOTO_LIMIT) = FREE_PHOTO_LIMIT)
                 => /\ req[1].ret.status = req[2].ret.status
                    /\ req[1].userData.photoScansUsed = req[2].userData.photoScansUsed
                    /\ req[1].userData.photoScansLimit = req[2].userData.photoScansLimit
           /\ (/\ d.subscriptionTier = "free"
               /\ OrNum(d.photoScansLimit, FREE_PHOTO_LIMIT) # FREE_PHOTO_LIMIT)
                 => /\ req[1].userData.photoScansLimit = FREE_PHOTO_LIMIT
                    /\ req[1].ret.status = "resource-exhausted"
                          <=> d.photoScansUsed >= FREE_PHOTO_LIMIT
                    /\ req[2].userData.photoScansLimit = d.photoScansLimit
                    /\ req[2].ret.status = "resource-exhausted"
                          <=> d.photoScansUsed >= d.photoScansLimit

\* C11 witness: both gates rejected a free record at its default limit.
C11_Witness ==
    /\ Finished(1) /\ Finished(2)
    /\ users[User].subscriptionTier = "free"
    /\ users[User].photoScansLimit = FREE_PHOTO_LIMIT
    /\ users[User].photoScansUsed = FREE_PHOTO_LIMIT
    /\ req[1].ret.status = "resource-exhausted"
    /\ req[2].ret.status = "resource-exhausted"

C13_RejectionLeavesLedgerAlone ==
    [][\A p \in Slots :
          (/\ req[p].op \in {"vision", "whisper"}
           /\ req[p].pc # "done"
           /\ req'[p].pc = "done"
           /\ req'[p].ret.status = "resource-exhausted")
          => /\ users' = users
             /\ usage_logs' = usage_logs]_vars

\* C14 (SpecValid): in index.js, a request without caller identity, without
\* its payload (imageBase64, audioData, jwsToken), with an image type
\* outside the allow-list, with an image over 5 MB or with audio over 25 MB
\* ends in its first step with unauthenticated or invalid-argument: the
\* ledger and the usage log are as before, no record is created, no
\* provider is called.
C14_InvalidRequestTouchesNothing ==
    [][\A p \in Slots :
          LET op == req'[p].op
              i == req'[p].input
              invalid ==
                  \/ ~i.auth
                  \/ op \in {"vision", "whisper", "verify"} /\ ~i.payload
                  \/ op = "vision" /\ i.imageType \notin
                        {Undefined, "image/jpeg", "image/png", "image/webp", "image/gif"}
                  \/ op = "vision" /\ i.sizeMB > 5
                  \/ op = "whisper" /\ i.sizeMB > 25
          IN  (Idle(p) /\ req'[p].pc # "idle" /\ invalid)
              => /\ req'[p].pc = "done"
                 /\ req'[p].ret.status \in {"unauthenticated", "invalid-argument"}
                 /\ ~req'[p].called
                 /\ users' = users
                 /\ usage_logs' = usage_logs]_vars

\* C14 witness: an authenticated scan request with a 6 MB image of an unseen
\* user was turned away, and there is still no record.
C14_Witness ==
    \E p \in Slots :
        /\ req[p].op = "vision" /\ Finished(p)
        /\ req[p].input.auth /\ req[p].input.payload
        /\ req[p].input.imageType = "image/jpeg"
        /\ req[p].input.sizeMB = MAX_IMAGE_MB + 1
        /\ req[p].ret.status = "invalid-argument"
        /\ ~users[User].exists
        /\ usage_logs = {}

\* C15 (SpecLife): in the lifetime code, the step that compares the
\* deviceID and checks the limit ends the request only with
\* resource-exhausted, and does so exactly when the limit check on the
\* record read says so, whether the presented deviceID matches the stored
\* one or not; when a non-empty stored deviceID differs, the step stores the
\* presented one.
C15_MismatchNeverRejects ==
    [][\A p \in Slots :
          LET ud == req[p].userData
              mismatch == ud.deviceID # Undefined /\ ud.deviceID # req[p].deviceID
          IN  (req[p].op \in LifeOps /\ req[p].pc = "ensure" /\ req'[p].pc # "ensure")
              => /\ req'[p].pc \in {"provider", "done"}
                 /\ req'[p].pc = "done" <=> LifeLimitReached(req[p].op, ud)
                 /\ req'[p].pc = "done" => req'[p].ret.status = "resource-exhausted"
                 /\ mismatch => users'[User].deviceID = req[p].deviceID]_vars

\* C15 witness: a request that read another stored deviceID than its own
\* was answered, and the record carries the presented deviceID.
C15_Witness ==
    \E p \in Slots :
        /\ req[p].op \in LifeOps /\ Finished(p) /\ req[p].ret.status = "ok"
        /\ req[p].userData.deviceID = "devA"
        /\ config.first.deviceID = "devA"
        /\ users[User].deviceID = "devB"

\* C16 (SpecEither): the step in which verifySubscription succeeds (a
\* verified receipt, an existing record) stores subscriptionTier pro if the
\* receipt's expiresDate is later than now and free otherwise, whatever the
\* tier was, and returns the subscriptionTier and isActive it stored.
C16_TierFollowsReceipt ==
    [][\A p \in Slots :
          (/\ Idle(p)
           /\ req'[p].op = "verify"
           /\ req'[p].ret.status = "ok")
          => /\ users'[User].subscriptionTier =
                   (IF users'[User].subscriptionExpiresAt > now THEN "pro" ELSE "free")
             /\ req'[p].ret.tier = users'[User].subscriptionTier
             /\ req'[p].ret.isActive <=> users'[User].subscriptionTier = "pro"]_vars

\* C16 witness: a record that started as pro is free after an expired
\* receipt was verified.
C16_Witness ==
    \E p \in Slots :
        /\ req[p].op = "verify" /\ Finished(p) /\ req[p].ret.status = "ok"
        /\ ~req[p].ret.isActive
        /\ config.first.subscriptionTier = "pro"
        /\ users[User].subscriptionTier = "free"
        /\ users[User].subscriptionExpiresAt <= now

\* C17 (SpecEither): the step in which verifySubscription fails on its
\* token (it does not decode, its x5c certificate is missing, no keys were
\* fetched, none matches, the signature does not verify) ends the call with
\* an error and leaves the user's record as it was.
C17_FailedVerificationChangesNothing ==
    [][\A p \in Slots :
          (/\ Idle(p)
           /\ req'[p].op = "verify"
           /\ req'[p].ret.message \in
                 {"Invalid JWS token", "Missing x5c certificate",
                  "Failed to fetch App Store public keys",
                  "No matching Apple public key found",
                  "signature verification failed"})
          => /\ req'[p].pc = "done"
             /\ req'[p].ret.status = "internal"
             /\ users' = users]_vars

\* C17 witness: a verifySubscription that failed on the signature of its
\* token, on a pro record that is still as it was first stored.
C17_Witness ==
    \E p \in Slots :
        /\ req[p].op = "verify" /\ Finished(p)
        /\ req[p].ret.status = "internal"
        /\ req[p].ret.message = "signature verification failed"
        /\ users[User] = config.first
        /\ users[User].subscriptionTier = "pro"
        /\ users[User].subscriptionVerifiedAt = 0

\* C18 (SpecFresh): no step of a callClaudeVision, callWhisperProxy or
\* getUserUsage request changes the subscriptionTier or subscriptionExpiresAt
\* of a stored record; a pro record stays pro until verifySubscription runs
\* again.
C18_OnlyVerifyChangesTier ==
    [][(/\ users[User].exists
        /\ \E p \in Slots : /\ req'[p] # req[p]
                            /\ req'[p].op \in {"vision", "whisper", "usage"})
       => /\ users'[User].subscriptionTier = users[User].subscriptionTier
          /\ users'[User].subscriptionExpiresAt = users[User].subscriptionExpiresAt]_vars

\* C19 (SpecSeq): in index.js, a callClaudeVision or callWhisperProxy
\* request whose provider call and used increment succeeded returns the
\* successful result, whether or not its usage_logs entry could be added.
C19_LogFailureNeverFailsAction ==
    [][\A p \in Slots :
          (/\ req[p].op \in {"vision", "whisper"}
           /\ req[p].pc = "log"
           /\ req'[p].pc = "done")
          => req'[p].ret.status = "ok"]_vars

\* C20 (SpecSeq): in index.js, requests one after the other; whatever
\* fields the stored record had, the response of getUserUsage carries used,
\* limit and remaining for voice and photo with
\* remaining = max(0, limit - used) >= 0; against the record as the call
\* leaves it, limit is 999999 for pro and otherwise the stored limit, or 7
\* (voice) and 3 (photo) when none is stored, used is the stored counter or
\* 0, and the tier is the stored one or free.
C20_UsageResponseIsNormalized ==
    [][\A p \in Slots :
          (/\ req[p].op = "usage"
           /\ req[p].pc # "done"
           /\ req'[p].pc = "done")
          => LET r == req'[p].ret.usage
                 d == users'[User]
                 pro == d.subscriptionTier = "pro"
             IN  /\ req'[p].ret.status = "ok"
                 /\ r.voiceActionsUsed = d.voiceActionsUsed
                 /\ r.photoScansUsed = d.photoScansUsed
                 /\ r.voiceActionsLimit =
                       (IF pro THEN 999999
                        ELSE IF d.voiceActionsLimit = 0 THEN 7 ELSE d.voiceActionsLimit)
                 /\ r.photoScansLimit =
                       (IF pro THEN 999999
                        ELSE IF d.photoScansLimit = 0 THEN 3 ELSE d.photoScansLimit)
                 /\ r.remainingVoiceActions >= 0
                 /\ r.remainingVoiceActions =
                       (IF r.voiceActionsLimit > r.voiceActionsUsed
                        THEN r.voiceActionsLimit - r.voiceActionsUsed ELSE 0)
                 /\ r.remainingPhotoScans >= 0
                 /\ r.remainingPhotoScans =
                       (IF r.photoScansLimit > r.photoScansUsed
                        THEN r.photoScansLimit - r.photoScansUsed ELSE 0)
                 /\ r.subscriptionTier =
                       (IF d.subscriptionTier = Undefined THEN "free"
                        ELSE d.subscriptionTier)]_vars

\* C20 witness: getUserUsage answered for a record first stored without
\* tier, limits and keys: free, the default limits, nothing used.
C20_Witness ==
    \E p \in Slots :
        /\ req[p].op = "usage" /\ Finished(p)
        /\ config.first.exists
        /\ config.first.subscriptionTier = Undefined
        /\ config.first.photoScansLimit = 0
        /\ config.first.voiceActionsDayKey = 0
        /\ \A q \in Slots : q # p => Idle(q)
        /\ req[p].ret.usage.subscriptionTier = "free"
        /\ req[p].ret.usage.photoScansLimit = 3
        /\ req[p].ret.usage.voiceActionsLimit = 7
        /\ req[p].ret.usage.remainingPhotoScans = 3
        /\ req[p].ret.usage.remainingVoiceActions = 7

\* C21 (Spec): in index.js, the step in which a callClaudeVision,
\* callWhisperProxy or getUserUsage request that read no record creates it
\* stores voiceActionsUsed = 0, photoScansUsed = 0, the limits 7 and 3, the
\* current month as both keys and subscriptionTier free, and the request
\* goes on with exactly these values for the classes it evaluates: no reset
\* is due on them and the free limit is not reached.
C21_CreatedRecordIsWhatIsEvaluated ==
    [][\A p \in Slots :
          (req[p].pc = "set" /\ req'[p].pc # "set")
          => LET d == users'[User]
                 ud == req'[p].userData
                 voice == /\ ud.voiceActionsUsed = d.voiceActionsUsed
                          /\ ud.voiceActionsLimit = d.voiceActionsLimit
                          /\ ud.voiceActionsDayKey = d.voiceActionsDayKey
                          /\ ~ensureMonthlyVoiceReset(ud, now).write
                 photo == /\ ud.photoScansUsed = d.photoScansUsed
                          /\ ud.photoScansLimit = d.photoScansLimit
                          /\ ud.photoScansDayKey = d.photoScansDayKey
                          /\ ~ensureMonthlyPhotoReset(ud, now).write
                          /\ ~PhotoLimitReached(ud)
             IN  /\ d.exists
                 /\ d.voiceActionsUsed = 0 /\ d.photoScansUsed = 0
                 /\ d.voiceActionsLimit = 7 /\ d.photoScansLimit = 3
                 /\ d.voiceActionsDayKey = now /\ d.photoScansDayKey = now
                 /\ d.subscriptionTier = "free"
                 /\ ud.subscriptionTier = d.subscriptionTier
                 /\ req'[p].op \in {"whisper", "usage"} => voice
                 /\ req'[p].op \in {"vision", "usage"} => photo]_vars

\* C21 witness: the only request of a user who had no record has created it
\* and is about to be evaluated.
C21_Witness ==
    /\ ~config.first.exists
    /\ req[1].op = "whisper" /\ req[1].pc = "ensure"
    /\ \A q \in Slots : q # 1 => Idle(q)
    /\ users[User].exists
    /\ users[User].voiceActionsUsed = 0
    /\ users[User].voiceActionsDayKey = now
    /\ req[1].userData.voiceActionsLimit = 7
    /\ req[1].userData.subscriptionTier = "free"

\* C22 (SpecDaily): in part_000, a run of the scheduled resetDailyLimits
\* leaves every free record with dailyRequests = 0, leaves every pro record
\* exactly as it was, and changes no field of any record other than
\* dailyRequests and lastResetAt.
C22_SweepResetsFreeOnly ==
    [][sweptAt' # sweptAt
       => \A u \in DOMAIN users :
             /\ (users[u].exists /\ users[u].subscriptionTier = "free")
                   => users'[u].dailyRequests = 0
             /\ users[u].subscriptionTier = "pro" => users'[u] = users[u]
             /\ users'[u] = [users[u] EXCEPT
                                !.dailyRequests = users'[u].dailyRequests,
                                !.lastResetAt = users'[u].lastResetAt]]_vars

\* C22 witness: the job has run on the day after the start over a free
\* record that had used four requests, before any request of the user.
C22_Witness ==
    /\ config.deployment = "daily"
    /\ config.first.subscriptionTier = "free"
    /\ config.first.dailyRequests = 4
    /\ \A p \in Slots : Idle(p)
    /\ sweptAt = 3
    /\ users[User].dailyRequests = 0
    /\ users[User].lastResetAt = 3

\* C23 (Spec): in index.js, for a free record whose keys name the current
\* month: when every request of the user has ended within that month, the
\* stored photoScansUsed and voiceActionsUsed equal their starting values
\* plus the number of callClaudeVision and callWhisperProxy requests that
\* succeeded, whatever other requests ran beside them.
C23_NoIncrementLost ==
    LET first == config.first
        succeeded(op) == {p \in Slots : /\ req[p].op = op
                                        /\ Finished(p)
                                        /\ req[p].ret.status = "ok"}
    IN  (/\ config.deployment = "monthly"
         /\ first.exists
         /\ first.subscriptionTier = "free"
         /\ first.photoScansDayKey = now
         /\ first.voiceActionsDayKey = now
         /\ \A p \in Slots : ~InFlight(p)
         /\ \A p \in Slots : req[p].ret.message # LogFailed)
        => /\ users[User].photoScansUsed =
                 first.photoScansUsed + Cardinality(succeeded("vision"))
           /\ users[User].voiceActionsUsed =
                 first.voiceActionsUsed + Cardinality(succeeded("whisper"))

\* C24 (SpecStats): in every version, the gate of an action decides the
\* same, admit or resource-exhausted, on two records that differ only in
\* monthlyTokens and lifetimeAPIRequests, values above the reported
\* monthlyLimit included.
C24_StatisticsNeverGate ==
    (/\ Finished(1) /\ Finished(2)
     /\ req[2].userData = [req[1].userData EXCEPT
                              !.monthlyTokens = req[2].userData.monthlyTokens,
                              !.lifetimeAPIRequests = req[2].userData.lifetimeAPIRequests])
    => req[1].ret.status = req[2].ret.status

\* C24 witness: a free record of the lifetime version with a request left
\* is admitted with no tokens counted and with more tokens counted than the
\* monthlyLimit reported for it.
C24_Witness ==
    /\ config.deployment = "lifetime"
    /\ Finished(1) /\ Finished(2)
    /\ req[1].op = "vision"
    /\ req[1].userData.subscriptionTier = "free"
    /\ req[1].userData.photoScansUsed = 2
    /\ req[1].userData.monthlyTokens = 0
    /\ req[2].userData.monthlyTokens > 100000
    /\ req[2].userData.lifetimeAPIRequests = 1000
    /\ req[1].ret.status = "ok"
    /\ req[2].ret.status = "ok"

\* C25 (SpecEither): no internal error a request returns after its provider
\* call failed is made of the body of the provider's response: the message
\* of callClaudeVision (index.js) and of callWhisperProxy (part_002,
\* part_004) holds fixed text, a status or the message of a local error.
C25_NoUpstreamBodyInError ==
    \A p \in Slots :
        (/\ Finished(p)
         /\ req[p].op \in {"vision", "whisper"}
         /\ req[p].called
         /\ req[p].ret.status = "internal")
        => req[p].ret.detail # "body"

\* C26 (Spec): in index.js, no step of any request lowers the stored
\* lifetimeAPIRequests of the user or removes it (an absent counter reads
\* as 0): the statistic never decreases, in any interleaving.
C26_LifetimeRequestsNeverDecrease ==
    [][users'[User].lifetimeAPIRequests >= users[User].lifetimeAPIRequests]_vars

\* C27 (Spec): in index.js, the step in which ensureMonthlyPhotoReset or
\* ensureMonthlyVoiceReset runs for a non-pro record whose limit differs
\* from the default (3 photo, 7 voice) leaves the stored limit equal to the
\* default, and when the key of the record is the current month it leaves
\* the stored used counter as it was.
C27_LimitFixKeepsUsed ==
    [][\A p \in Slots :
          LET ud == req[p].userData
              d == users[User]
              nonPro == OrStr(ud.subscriptionTier, "free") # "pro"
              photoStep == \/ req[p].op = "vision" /\ req[p].pc = "ensure"
                           \/ req[p].op = "usage" /\ req[p].pc = "ensurePhoto"
              voiceStep == req[p].op \in {"whisper", "usage"} /\ req[p].pc = "ensure"
          IN  /\ (/\ photoStep /\ req'[p].pc # req[p].pc
                  /\ nonPro
                  /\ OrNum(ud.photoScansLimit, 3) # 3)
                 => /\ users'[User].photoScansLimit = 3
                    /\ (ud.photoScansDayKey = now /\ d.photoScansDayKey = now)
                          => users'[User].photoScansUsed = d.photoScansUsed
              /\ (/\ voiceStep /\ req'[p].pc # req[p].pc
                  /\ nonPro
                  /\ OrNum(ud.voiceActionsLimit, 7) # 7)
                 => /\ users'[User].voiceActionsLimit = 7
                    /\ (ud.voiceActionsDayKey = now /\ d.voiceActionsDayKey = now)
                          => users'[User].voiceActionsUsed = d.voiceActionsUsed]_vars

\* C28 (Spec): in index.js, a request that read the record of a free user
\* under a stale period key never resets a counter that already counts
\* consumptions of the current month: when the stored key names the current
\* month and the stored used is above 0, its ensureMonthlyPhotoReset /
\* ensureMonthlyVoiceReset step leaves the stored used as it is.
C28_ResetOnlyOncePerMonth ==
    [][\A p \in Slots :
          LET ud == req[p].userData
              d == users[User]
              photoStep == \/ req[p].op = "vision" /\ req[p].pc = "ensure"
                           \/ req[p].op = "usage" /\ req[p].pc = "ensurePhoto"
              voiceStep == req[p].op \in {"whisper", "usage"} /\ req[p].pc = "ensure"
          IN  /\ (/\ photoStep /\ req'[p].pc # req[p].pc
                  /\ d.subscriptionTier = "free"
                  /\ ud.photoScansDayKey # now
                  /\ d.photoScansDayKey = now /\ d.photoScansUsed > 0)
                 => users'[User].photoScansUsed = d.photoScansUsed
              /\ (/\ voiceStep /\ req'[p].pc # req[p].pc
                  /\ d.subscriptionTier = "free"
                  /\ ud.voiceActionsDayKey # now
                  /\ d.voiceActionsDayKey = now /\ d.voiceActionsUsed > 0)
                 => users'[User].voiceActionsUsed = d.voiceActionsUsed]_vars

\* C29 (Spec): in index.js, once a record exists for the user, the set() of
\* a request that read it as missing changes nothing in it: used counters,
\* statistics and subscription fields stay as they are.
C29_CreationNeverOverwrites ==
    [][\A p \in Slots :
          (/\ req[p].pc = "set" /\ req'[p].pc # "set"
           /\ users[User].exists)
          => users'[User] = users[User]]_vars

\* C30 (SpecSeq): in index.js, requests one after the other; when a
\* callClaudeVision or callWhisperProxy request on an existing record whose
\* stored deviceID differs from the one it presents has ended, the stored
\* deviceID is the presented one.
C30_DeviceRebound ==
    [][\A p \in Slots :
          (/\ req[p].op \in {"vision", "whisper"}
           /\ req[p].pc # "done" /\ req'[p].pc = "done"
           /\ config.first.exists
           /\ config.first.deviceID # req[p].deviceID)
          => users'[User].deviceID = req[p].deviceID]_vars

\* C31 as stated (SpecEither): a stored record without subscriptionTier is
\* gated as a free record: callClaudeVision of index.js and callWhisperProxy
\* and callClaudeProxy of part_002 answer resource-exhausted when its used
\* count has reached its limit.
C31_MissingTierGatedAsFree ==
    \A p \in Slots :
        LET ud == req[p].userData
            op == req[p].op
        IN  (/\ Finished(p)
             /\ ud.exists
             /\ ud.subscriptionTier = Undefined
             /\ \/ /\ config.deployment = "monthly" /\ op = "vision"
                   /\ photoScansUsed(ud) >= photoScansLimit(ud)
                \/ /\ config.deployment = "lifetime" /\ op \in {"whisper", "chat"}
                   /\ LifeUsed(op, ud) >= LifeLimit(op, ud))
            => req[p].ret.status = "resource-exhausted"

\* C32 as stated (SpecSeq): the step in which verifySubscription verifies
\* its receipt for a user who has no record yet ends the call with success
\* and leaves a record that holds the verified tier and expiry.
C32_VerifyWithoutRecordSucceeds ==
    [][\A p \in Slots :
          (/\ Idle(p)
           /\ req'[p].op = "verify"
           /\ ~users[User].exists
           /\ req'[p].ret.message \notin
                 {"Invalid JWS token", "Missing x5c certificate",
                  "Failed to fetch App Store public keys",
                  "No matching Apple public key found",
                  "signature verification failed"})
          => /\ req'[p].ret.status = "ok"
             /\ users'[User].exists
             /\ users'[User].subscriptionTier = req'[p].ret.tier
             /\ users'[User].subscriptionExpiresAt > 0]_vars

\* C33 (SpecFallback): callClaudeVision of index.js tries the models in the
\* order of the fallback list, one call per step.  A call is made only when
\* every call before it brought 404 / not_found or no response; the first
\* ok response ends the loop and its result goes on to the update; any other
\* error status ends the request at once with `internal`; and when the last
\* model too brings 404 or no response the request ends with `internal`
\* while the stored record and usage_logs stay as they are.
C33_FallbackInOrder ==
    [][\A p \in Slots :
          LET t == req'[p].tried
              n == Len(t)
          IN  (req'[p].op = "vision" /\ t # req[p].tried)
              => /\ n = Len(req[p].tried) + 1
                 /\ n <= Len(modelFallbacks)
                 /\ \A i \in 1..(n - 1) :
                        t[i] = req[p].tried[i] /\ t[i] \in {"not-found", "network"}
                 /\ t[n] = "ok"
                       => req'[p].pc = "update" /\ req'[p].tokens \in TokenCounts
                 /\ t[n] = "status"
                       => req'[p].pc = "done" /\ req'[p].ret.status = "internal"
                 /\ (t[n] \in {"not-found", "network"} /\ n < Len(modelFallbacks))
                       => req'[p].pc = "provider"
                 /\ (t[n] \in {"not-found", "network"} /\ n = Len(modelFallbacks))
                       => /\ req'[p].pc = "done"
                          /\ req'[p].ret.status = "internal"
                 /\ t[n] # "ok" => users' = users /\ usage_logs' = usage_logs
    ]_vars

\* C33 witness: the first two models brought 404 and no response, the third
\* answered, and the request succeeded and was counted.
C33_Witness ==
    \E p \in Slots :
        /\ req[p].op = "vision" /\ Finished(p)
        /\ req[p].tried = <<"not-found", "network", "ok">>
        /\ req[p].ret.status = "ok"
        /\ users[User].photoScansUsed = photoScansUsed(req[p].userData) + 1

\* C34 (LiveFallback): when every ledger operation and every provider call
\* returns or fails, every callClaudeVision request of index.js ends, with
\* success or an error, and makes at most 5 provider calls, one per model
\* of the fallback list.
C34_VisionTerminates ==
    /\ [](\A p \in Slots : Len(req[p].tried) <= 5)
    /\ \A p \in 1..NumReq :
           (req[p].op = "vision" /\ InFlight(p))
              ~> (Finished(p) /\ req[p].ret.status \in {"ok", "internal", "resource-exhausted"})

\* C34 witness: a request that ended with an error after the fifth call.
C34_Witness ==
    \E p \in Slots :
        /\ req[p].op = "vision" /\ Finished(p)
        /\ Len(req[p].tried) = 5
        /\ req[p].ret.status = "internal"

\* C35 as stated (SpecSeq): in index.js, usage_logs entries correspond one
\* to one with consumptions.  A used counter rises only in the step in which
\* a callClaudeVision or callWhisperProxy request increments it by 1; the
\* request that has incremented appends exactly one usage_logs entry, for
\* its user and its service, before it ends; and no other step appends one.
C35_OneLogPerConsumption ==
    [][LET incremented(p) ==
               /\ req[p].op \in {"vision", "whisper"}
               /\ req[p].pc = "update" /\ req'[p].pc = "log"
           ends(p) ==
               /\ req[p].op \in {"vision", "whisper"}
               /\ req[p].pc = "log" /\ req'[p].pc = "done"
       IN  /\ \A p \in Slots :
                 incremented(p)
                 => IF req[p].op = "vision"
                    THEN users'[User].photoScansUsed = users[User].photoScansUsed + 1
                    ELSE users'[User].voiceActionsUsed = users[User].voiceActionsUsed + 1
           /\ (\/ users'[User].photoScansUsed > users[User].photoScansUsed
               \/ users'[User].voiceActionsUsed > users[User].voiceActionsUsed)
                 => \E p \in Slots : incremented(p)
           /\ \A p \in Slots :
                 ends(p)
                 => usage_logs' \ usage_logs =
                       {[by |-> p, userId |-> User,
                         service |-> IF req[p].op = "vision"
                                     THEN "claude-vision" ELSE "whisper",
                         subscriptionTier |-> req[p].userData.subscriptionTier]}
           /\ usage_logs' # usage_logs => \E p \in Slots : ends(p)
    ]_vars

\* C36 (Spec): in index.js, for a request that read a pro record, the steps
\* of ensureMonthlyVoiceReset and ensureMonthlyPhotoReset write nothing to
\* the ledger and hand the data back as it was, whatever its period keys
\* and limits; and the update after a successful provider call still adds 1
\* to the used counter of the action.
C36_ProRecordIsNeverReset ==
    [][\A p \in Slots :
          (/\ req[p].userData.subscriptionTier = "pro"
           /\ req'[p] # req[p])
          => /\ req[p].pc \in {"ensure", "ensurePhoto"}
                => /\ users' = users
                   /\ req'[p].userData = req[p].userData
             /\ (req[p].op = "vision" /\ req[p].pc = "update")
                => users'[User].photoScansUsed = users[User].photoScansUsed + 1
             /\ (req[p].op = "whisper" /\ req[p].pc = "update")
                => users'[User].voiceActionsUsed = users[User].voiceActionsUsed + 1
    ]_vars

\* C36 witness: a callWhisperProxy request on a pro record of an earlier
\* month with 7 used succeeded; the stored key is still the old one and the
\* counter went to 8.
C36_Witness ==
    \E p \in Slots :
        /\ req[p].op = "whisper" /\ Finished(p) /\ req[p].ret.status = "ok"
        /\ req[p].userData.subscriptionTier = "pro"
        /\ req[p].userData.voiceActionsDayKey < now
        /\ req[p].userData = config.first
        /\ users[User].voiceActionsDayKey = config.first.voiceActionsDayKey
        /\ users[User].voiceActionsUsed = config.first.voiceActionsUsed + 1

\* C37 as stated (Spec): in index.js, no step of a getUserUsage request
\* raises voiceActionsUsed, photoScansUsed, lifetimeAPIRequests or
\* monthlyTokens or adds a usage_logs entry; and on a record that exists it
\* changes nothing but this: a counter whose key is not the current month
\* gets used 0 and the current month as its key, and a limit is set to the
\* free limit.
C37_UsageQueryConsumesNothing ==
    [][\A p \in Slots :
          (req'[p] # req[p] /\ req'[p].op = "usage")
          => LET d == users[User]
                 e == users'[User]
                 voiceReset == IF d.voiceActionsDayKey # now
                               THEN [d EXCEPT !.voiceActionsUsed = 0,
                                              !.voiceActionsDayKey = now]
                               ELSE d
                 photoReset == IF d.photoScansDayKey # now
                               THEN [d EXCEPT !.photoScansUsed = 0,
                                              !.photoScansDayKey = now]
                               ELSE d
             IN  /\ usage_logs' = usage_logs
                 /\ e.voiceActionsUsed <= d.voiceActionsUsed
                 /\ e.photoScansUsed <= d.photoScansUsed
                 /\ e.lifetimeAPIRequests <= d.lifetimeAPIRequests
                 /\ e.monthlyTokens <= d.monthlyTokens
                 /\ d.exists
                    => e \in {d, voiceReset, photoReset,
                              [d EXCEPT !.voiceActionsLimit = FREE_VOICE_LIMIT],
                              [voiceReset EXCEPT !.voiceActionsLimit = FREE_VOICE_LIMIT],
                              [d EXCEPT !.photoScansLimit = FREE_PHOTO_LIMIT],
                              [photoReset EXCEPT !.photoScansLimit = FREE_PHOTO_LIMIT]}
    ]_vars

\* C38 (SpecDaily): in part_000, the step of checkAndResetDailyLimit and the
\* limit check: when the lastResetAt the request read is absent or another
\* day than today, it stores dailyRequests 0 and lastResetAt today, the
\* request is evaluated against 0 and goes on to the provider; when it is
\* today, nothing is written and the request is evaluated against the
\* dailyRequests it read.
C38_DailyResetBeforeCheck ==
    [][\A p \in Slots :
          (/\ req[p].op \in DailyOps
           /\ req[p].pc = "ensure"
           /\ req'[p] # req[p])
          => LET ud == req[p].userData
             IN  IF ud.lastResetAt = 0 \/ ud.lastResetAt # now
                 THEN /\ users'[User] = [users[User] EXCEPT !.dailyRequests = 0,
                                                            !.lastResetAt = now]
                      /\ req'[p].userData.dailyRequests = 0
                      /\ req'[p].pc = "provider"
                 ELSE /\ users' = users
                      /\ req'[p].userData.dailyRequests = ud.dailyRequests
                      /\ req'[p].ret.status = "resource-exhausted"
                            <=> ud.dailyRequests >=
                                  (IF ud.subscriptionTier = "pro" THEN 1000 ELSE 5)
                      /\ req'[p].ret.status # "resource-exhausted"
                            => req'[p].pc = "provider"
    ]_vars

\* C38 witness: a free record with 5 requests counted yesterday; the request
\* reset it, was evaluated against 0, called the provider and was counted
\* as the first of today.
C38_Witness ==
    \E p \in Slots :
        /\ req[p].op \in DailyOps /\ Finished(p) /\ req[p].ret.status = "ok"
        /\ config.first.subscriptionTier = "free"
        /\ config.first.dailyRequests = DAILY_FREE_LIMIT
        /\ config.first.lastResetAt = 1
        /\ req[p].userData.lastResetAt = 1
        /\ req[p].userData.dailyRequests = 0
        /\ users[User].lastResetAt = 2
        /\ users[User].dailyRequests = 1

====
